---------------------------- MODULE Spec2Model ----------------------------
(***************************************************************************)
(* Hybrid job-student matching engine (BE/app/services/matching_service.py *)
(* and the endpoints that call it).                                        *)
(*                                                                         *)
(* Numbers.  The code computes in binary floating point and rounds what it *)
(* reports to 4 decimals.  The model computes in exact rationals:          *)
(*   - a score rounded to 4 decimals is an integer number of 1/10000       *)
(*     (0.65 is 6500);                                                     *)
(*   - the experience fit, which the code does not round before it enters  *)
(*     the composite, is a fraction [n, d] (value n/d);                    *)
(*   - a raw cosine distance / similarity is an integer number of 1/100000 *)
(*     so that PostgreSQL's ROUND(.., 4) has a digit to round away.        *)
(* Python's round() is round-half-to-even, PostgreSQL's ROUND(numeric) is  *)
(* round-half-away-from-zero.                                              *)
(*                                                                         *)
(* A nullable value is a sequence of length <= 1: None is << >>, a present *)
(* value x is <<x>>.                                                       *)
(***************************************************************************)
EXTENDS Integers, Sequences, FiniteSets, TLC

VARIABLES
    skills,              \* skills table: the skill ids that exist (the name of skill k is its id)
    students,            \* students table: student_id -> row
    student_skills,      \* student_skills table: set of rows, unique per (student_id, skill_id)
    student_embeddings,  \* student_embeddings table: set of rows
                         \* [student_id, source_text_hash, embedding]
    jobs,                \* jobs table: job_id -> row
    job_skills,          \* job_skills table: set of rows, unique per (job_id, skill_id)
    job_embeddings,      \* job_embeddings table: set of rows
                         \* [job_id, source_text_hash, embedding].  Where jobs are
                         \* matched a job's vector is represented by its cosine
                         \* distance to the student's vector, in 1/100000; where
                         \* embeddings are generated a vector is represented by
                         \* the text it was generated from
    applications,        \* applications table: sequence of rows in insertion order
    application_status_history,
                         \* application_status_history table: sequence of rows
                         \* [application_id, previous_status, new_status] in
                         \* insertion order
    courses,             \* courses table: course_id -> row
    course_skills,       \* course_skills table: set of rows, unique per (course_id, skill_id)
    req,                 \* the call being served: its operation and arguments
    resp                 \* what the call returned (None before it returns)

vars == << skills, students, student_skills, student_embeddings, jobs, job_skills,
           job_embeddings, applications, application_status_history, courses,
           course_skills, req, resp >>

db == << skills, students, student_skills, student_embeddings, jobs, job_skills,
         job_embeddings, applications, application_status_history, courses,
         course_skills >>

-----------------------------------------------------------------------------
(* Nullable values and Python truthiness *)

None == << >>

Some(x) == << x >>

Val(o) == o[1]

\* Python `o or dflt` for a nullable integer: None and 0 are both falsy.
OrElse(o, dflt) == IF o = None \/ Val(o) = 0 THEN dflt ELSE Val(o)

Max(a, b) == IF a >= b THEN a ELSE b

Min(a, b) == IF a <= b THEN a ELSE b

-----------------------------------------------------------------------------
(* Fixed-point scales and rounding *)

\* 4 decimals: round(x, 4) in Python, ROUND(x, 4) in SQL.
Scale == 10000

\* Resolution of a raw (unrounded) cosine distance: one more decimal than is kept.
RawScale == 10 * Scale

\* Python round(n/d * 1, 0) for d > 0: nearest integer, ties to even.
RoundHalfEven(n, d) ==
    LET q == n \div d
        r == n % d
    IN  IF 2 * r < d THEN q
        ELSE IF 2 * r > d THEN q + 1
        ELSE IF q % 2 = 0 THEN q ELSE q + 1

\* PostgreSQL ROUND(numeric): nearest integer to n/d for d > 0, ties away from zero.
RoundHalfAway(n, d) ==
    IF n >= 0 THEN (2 * n + d) \div (2 * d)
    ELSE -((2 * (-n) + d) \div (2 * d))

\* A fraction [n, d] with d > 0.
Frac(n, d) == [n |-> n, d |-> d]

\* round(f, 4) of a fraction, in 1/10000.
Round4(f) == RoundHalfEven(f.n * Scale, f.d)

-----------------------------------------------------------------------------
(* Thresholds and weights, matching_service.py:27-39 (weights in percent) *)

\* 0.65 in 1/10000
COMPOSITE_THRESHOLD == 6500

\* 0.45 in 1/100000
VECTOR_RETRIEVAL_THRESHOLD == 45000

W_VECTOR == 35

W_SKILL == 35

W_EXPERIENCE == 20

W_PREFERENCE == 10

W_VECTOR_FALLBACK == 55

W_EXPERIENCE_FALLBACK == 30

W_PREFERENCE_FALLBACK == 15

-----------------------------------------------------------------------------
(* Bounds of the model *)

\* largest experience_years of a student
MaxStudentExp == 16

\* largest experience_min_years / experience_max_years of a job
MaxJobExp == 3

-----------------------------------------------------------------------------
(* Stage 2, signal C: experience fit *)

\* the experience fit with a missing maximum read as the minimum itself
\* instead of the minimum + 10
_compute_experience_fit_closed(student_exp, job_exp_min, job_exp_max) ==
    IF job_exp_min = None /\ job_exp_max = None THEN Frac(4, 5)
    ELSE
      LET exp_min == OrElse(job_exp_min, 0)
          exp_max == OrElse(job_exp_max, exp_min)
      IN  IF exp_min <= student_exp /\ student_exp <= exp_max THEN Frac(1, 1)
          ELSE IF student_exp < exp_min THEN
              LET gap == exp_min - student_exp
                  m   == Max(exp_min, 1)
              IN  Frac(Max(0, m - gap), m)
          ELSE
              LET gap == student_exp - exp_max
              IN  Frac(Max(5, 10 - gap), 10)

\* _compute_experience_fit(student_exp, job_exp_min, job_exp_max): a fraction.
\* job_exp_min and job_exp_max are nullable.
_compute_experience_fit(student_exp, job_exp_min, job_exp_max) ==
    IF job_exp_min = None /\ job_exp_max = None THEN Frac(4, 5)
    ELSE
      LET exp_min == OrElse(job_exp_min, 0)
          exp_max == OrElse(job_exp_max, exp_min + 10)
      IN  IF exp_min <= student_exp /\ student_exp <= exp_max THEN Frac(1, 1)
          ELSE IF student_exp < exp_min THEN
              \* max(0.0, 1.0 - gap / max(exp_min, 1))
              LET gap == exp_min - student_exp
                  m   == Max(exp_min, 1)
              IN  Frac(Max(0, m - gap), m)
          ELSE
              \* max(0.5, 1.0 - gap / 10.0)
              LET gap == student_exp - exp_max
              IN  Frac(Max(5, 10 - gap), 10)


-----------------------------------------------------------------------------
(* Stage 2, signal B: skill overlap *)

\* ORDER BY js.is_mandatory DESC, s.name within one job
ReqBefore(a, b) ==
    \/ a.is_mandatory /\ ~b.is_mandatory
    \/ a.is_mandatory = b.is_mandatory /\ a.skill_id < b.skill_id

RECURSIVE OrderedReqs(_)
OrderedReqs(S) ==
    IF S = {} THEN << >>
    ELSE LET first == CHOOSE a \in S : \A b \in S \ {a} : ReqBefore(a, b)
         IN  << first >> \o OrderedReqs(S \ {first})

\* job_skills LEFT JOIN skills: a requirement is kept whether or not its
\* skill exists
JobSkillRows_left_join(jid) ==
    OrderedReqs({ r \in job_skills : r.job_id = jid })

\* job_skills JOIN skills WHERE job_id = jid, in the query's order
JobSkillRows(jid) ==
    OrderedReqs({ r \in job_skills : r.job_id = jid /\ r.skill_id \in skills })

\* a student whose skill rows are not read
StudentSkillDict_empty(sid) == << >>

\* student_skills JOIN skills WHERE student_id = sid, as the dict skill_id -> row
StudentSkillDict(sid) ==
    LET rows == { r \in student_skills : r.student_id = sid /\ r.skill_id \in skills }
    IN  [ k \in { r.skill_id : r \in rows } |->
            CHOOSE r \in rows : r.skill_id = k ]

\* The sub-sequence of s at the indices in I (I a set of indices of s), in order.
RECURSIVE Pick(_, _, _)
Pick(s, I, i) ==
    IF i > Len(s) THEN << >>
    ELSE (IF i \in I THEN << s[i] >> ELSE << >>) \o Pick(s, I, i + 1)

\* the clamp left out
FracMin1_none(f) == f

\* min(f, 1.0) of a fraction
FracMin1(f) == IF f.n > f.d THEN Frac(1, 1) ELSE f

\* "Compute skill score": the score before rounding, clamped to 1.0
skill_score_formula(mandatory_matched, mandatory_total, optional_matched, optional_total, proficiency_bonus_count) ==
    LET score ==
          IF mandatory_total > 0 THEN
              LET ot == Max(optional_total, 1)
              IN  Frac(70 * mandatory_matched * ot
                         + 30 * optional_matched * mandatory_total
                         + 5 * proficiency_bonus_count * mandatory_total * ot,
                       100 * mandatory_total * ot)
          ELSE
              LET total   == mandatory_total + optional_total
                  matched == mandatory_matched + optional_matched
                  t       == Max(total, 1)
              IN  Frac(100 * matched + 5 * proficiency_bonus_count * t, 100 * t)
    IN  FracMin1(score)

\* the bonus gate without the years-of-experience condition
proficiency_bonus_level_only(ss, rs) == ss.proficiency_level >= 4

\* Proficiency bonus gate of one matched requirement
proficiency_bonus(ss, rs) ==
    ss.proficiency_level >= 4
      /\ ss.years_of_experience >= OrElse(rs.min_experience_years, 0)

\* a job without requirements scored 0 instead of "not applicable"
no_requirements_result_zero ==
    [ skill_score |-> Some(0), matched_skills |-> << >>, missing_skills |-> << >>,
      total_skills |-> 0, mandatory_matched |-> 0, mandatory_total |-> 0,
      optional_matched |-> 0, optional_total |-> 0 ]

\* results[jid] of a job that has no requirements: the skill score is N/A
no_requirements_result ==
    [ skill_score |-> None, matched_skills |-> << >>, missing_skills |-> << >>,
      total_skills |-> 0, mandatory_matched |-> 0, mandatory_total |-> 0,
      optional_matched |-> 0, optional_total |-> 0 ]

\* The body of the per-job loop of _compute_skill_overlap
skill_overlap_of_job(student_dict, required_skills) ==
    IF required_skills = << >> THEN no_requirements_result
    ELSE
        LET idx       == 1 .. Len(required_skills)
            held(i)   == required_skills[i].skill_id \in DOMAIN student_dict
            mand(i)   == required_skills[i].is_mandatory
            ssOf(i)   == student_dict[required_skills[i].skill_id]
            mandatory_total   == Cardinality({ i \in idx : mand(i) })
            optional_total    == Cardinality({ i \in idx : ~mand(i) })
            mandatory_matched == Cardinality({ i \in idx : mand(i) /\ held(i) })
            optional_matched  == Cardinality({ i \in idx : ~mand(i) /\ held(i) })
            proficiency_bonus_count ==
                Cardinality({ i \in idx :
                    held(i) /\ proficiency_bonus(ssOf(i), required_skills[i]) })
            matchedRow(i) ==
                [ skill_name |-> required_skills[i].skill_id,
                  is_mandatory |-> mand(i),
                  proficiency_level |-> ssOf(i).proficiency_level,
                  years_of_experience |-> ssOf(i).years_of_experience ]
            missingRow(i) ==
                [ skill_name |-> required_skills[i].skill_id, is_mandatory |-> mand(i) ]
            matchedIdx == Pick([ i \in idx |-> i ], { i \in idx : held(i) }, 1)
            missingIdx == Pick([ i \in idx |-> i ], { i \in idx : ~held(i) }, 1)
        IN  [ skill_score |->
                Some(Round4(skill_score_formula(mandatory_matched, mandatory_total,
                        optional_matched, optional_total, proficiency_bonus_count))),
              matched_skills |-> [ k \in 1 .. Len(matchedIdx) |-> matchedRow(matchedIdx[k]) ],
              missing_skills |-> [ k \in 1 .. Len(missingIdx) |-> missingRow(missingIdx[k]) ],
              total_skills |-> Len(required_skills),
              mandatory_matched |-> mandatory_matched,
              mandatory_total |-> mandatory_total,
              optional_matched |-> optional_matched,
              optional_total |-> optional_total ]

\* _compute_skill_overlap(student_id, job_ids): the dict job_id -> result, one
\* entry per id of the list job_ids
_compute_skill_overlap(student_id, job_ids) ==
    [ jid \in { job_ids[i] : i \in 1 .. Len(job_ids) } |->
        skill_overlap_of_job(StudentSkillDict(student_id), JobSkillRows(jid)) ]

-----------------------------------------------------------------------------
(* Stage 2, signal D: preference fit *)

\* str.lower() on the model's alphabet
LowerChar(c) ==
    CASE c = "A" -> "a"
      [] c = "B" -> "b"
      [] OTHER   -> c

Lower(s) == [ i \in 1 .. Len(s) |-> LowerChar(s[i]) ]

\* Python `needle in hay` for strings
Contains(hay, needle) ==
    \E i \in 1 .. (Len(hay) - Len(needle) + 1) :
        SubSeq(hay, i, i + Len(needle) - 1) = needle

\* D1 / D2: membership sub-signal, in tenths
type_signal(pref, job_type) ==
    IF pref # {} THEN (IF job_type \in pref THEN 10 ELSE 3) ELSE 7

\* location_signal comparing the strings as they are (no .lower())
location_signal_case_sensitive(pref_locations, job_location) ==
    IF pref_locations # {} /\ job_location # None /\ Val(job_location) # << >> THEN
        LET matched == \E pl \in pref_locations :
                         \/ Contains(Val(job_location), pl)
                         \/ Contains(pl, Val(job_location))
        IN  IF matched THEN 10 ELSE 5
    ELSE 7

\* D3: location sub-signal, in tenths.  job_location is nullable; an empty
\* string is falsy like None.
location_signal(pref_locations, job_location) ==
    IF pref_locations # {} /\ job_location # None /\ Val(job_location) # << >> THEN
        LET job_loc_lower == Lower(Val(job_location))
            matched == \E pl \in pref_locations :
                         \/ Contains(job_loc_lower, Lower(pl))
                         \/ Contains(Lower(pl), job_loc_lower)
        IN  IF matched THEN 10 ELSE 5
    ELSE 7

\* _compute_preference_fit(...): round(sum(scores) / len(scores), 4), in 1/10000.
\* The three preference lists are modelled as sets: the code only tests them
\* for emptiness and membership.
_compute_preference_fit(student_pref_remote, student_pref_job_types, student_pref_locations, job_remote_type, job_employment_type, job_location) ==
    LET d1 == type_signal(student_pref_remote, job_remote_type)
        d2 == type_signal(student_pref_job_types, job_employment_type)
        d3 == location_signal(student_pref_locations, job_location)
    IN  Round4(Frac(d1 + d2 + d3, 30))

-----------------------------------------------------------------------------
(* Composite *)

\* `if skill_score:` in place of `if skill_score is not None`
skill_is_truthy(skill_score) == skill_score # None /\ Val(skill_score) # 0

\* `if skill_score is not None`
skill_is_defined(skill_score) == skill_score # None

\* _compute_composite(vector_score, skill_score, experience_score, preference_score):
\* vector_score and preference_score in 1/10000, skill_score nullable in 1/10000,
\* experience_score a fraction; the result in 1/10000.
_compute_composite(vector_score, skill_score, experience_score, preference_score) ==
    IF skill_is_defined(skill_score) THEN
        RoundHalfEven(
            (W_VECTOR * vector_score + W_SKILL * Val(skill_score)
               + W_PREFERENCE * preference_score) * experience_score.d
              + W_EXPERIENCE * Scale * experience_score.n,
            100 * experience_score.d)
    ELSE
        RoundHalfEven(
            (W_VECTOR_FALLBACK * vector_score
               + W_PREFERENCE_FALLBACK * preference_score) * experience_score.d
              + W_EXPERIENCE_FALLBACK * Scale * experience_score.n,
            100 * experience_score.d)

-----------------------------------------------------------------------------
(* Vector store queries *)

\* (1.0 - (je.embedding <=> se.embedding)) of a job and the student, in
\* 1/100000; only read where both embeddings exist
\* the ids with a row in student_embeddings / job_embeddings
StudentEmbeddingIds == { r.student_id : r \in student_embeddings }

JobEmbeddingIds == { r.job_id : r \in job_embeddings }

\* (je.embedding <=> se.embedding) of job jid and the student, in 1/100000
JobDistance(jid) == (CHOOSE r \in job_embeddings : r.job_id = jid).embedding

RawSimilarity(jid) == RawScale - JobDistance(jid)

\* ROUND((1.0 - (je.embedding <=> se.embedding))::numeric, 4) AS vector_score
\* under LEFT JOINs: NULL when the student or the job has no embedding
VectorScoreColumn(sid, jid) ==
    IF sid \in StudentEmbeddingIds /\ jid \in JobEmbeddingIds
    THEN Some(RoundHalfAway(RawSimilarity(jid), RawScale \div Scale))
    ELSE None

\* Python truthiness of a nullable Decimal: None and 0 are falsy
Truthy(o) == o # None /\ Val(o) # 0

-----------------------------------------------------------------------------
(* Scoring of one (student, job) row, as Recommend, Browse and Detail do it *)

\* student_exp and the three preference lists read from the students row, or
\* the defaults when there is no row
StudentData(sid) ==
    IF sid \in DOMAIN students THEN students[sid] ELSE
      [ experience_years |-> 0, preferred_job_types |-> {},
        preferred_remote_types |-> {}, preferred_locations |-> {} ]

\* experience + preference + composite of one row, and the match fields
\* attached to it
match_fields(sd, job, vector_score, skill_data) ==
    LET skill_score      == skill_data.skill_score
        experience_score == _compute_experience_fit(sd.experience_years,
                                job.experience_min_years, job.experience_max_years)
        preference_score == _compute_preference_fit(sd.preferred_remote_types,
                                sd.preferred_job_types, sd.preferred_locations,
                                job.remote_type, job.employment_type, job.location)
        composite        == _compute_composite(vector_score, skill_score,
                                experience_score, preference_score)
    IN  [ match_score |-> Some(composite),
          match_breakdown |-> Some(
            [ composite_score |-> composite,
              vector_score |-> vector_score,
              skill_score |-> skill_score,
              experience_score |-> Round4(experience_score),
              preference_score |-> preference_score ]),
          matched_skills |-> skill_data.matched_skills,
          missing_skills |-> skill_data.missing_skills ]

\* the fields of a row that carries no score
no_match_fields ==
    [ match_score |-> None, match_breakdown |-> None,
      matched_skills |-> << >>, missing_skills |-> << >> ]

WithJobId(jid, fields) ==
    [ job_id |-> jid, match_score |-> fields.match_score,
      match_breakdown |-> fields.match_breakdown,
      matched_skills |-> fields.matched_skills,
      missing_skills |-> fields.missing_skills ]

\* all orders of the set S in which key (a function on S) is non-increasing
\* (ORDER BY key DESC; rows with equal keys come in any order)
OrdersDesc(S, key) ==
    { q \in [ 1 .. Cardinality(S) -> S ] :
        /\ \A i, j \in 1 .. Cardinality(S) : i # j => q[i] # q[j]
        /\ \A i, j \in 1 .. Cardinality(S) : i < j => key[q[i]] >= key[q[j]] }

\* list.sort(key=match_score, reverse=True): a stable sort, equal keys keep
\* their order.  Insert x behind every element whose key is >= its own.
InsertDesc(sorted, x) ==
    LET k == Cardinality({ i \in 1 .. Len(sorted) :
                            Val(sorted[i].match_score) >= Val(x.match_score) })
    IN  SubSeq(sorted, 1, k) \o << x >> \o SubSeq(sorted, k + 1, Len(sorted))

RECURSIVE SortByMatchScoreDesc(_)
SortByMatchScoreDesc(s) ==
    IF s = << >> THEN << >>
    ELSE InsertDesc(SortByMatchScoreDesc(SubSeq(s, 1, Len(s) - 1)), s[Len(s)])

\* s[offset : offset + limit]
Slice(s, offset, limit) == SubSeq(s, offset + 1, Min(Len(s), offset + limit))

\* s with the elements whose flag is set, in order (flags a sequence of
\* booleans as long as s)
Filter(s, flags) == Pick(s, { i \in 1 .. Len(s) : flags[i] }, 1)

-----------------------------------------------------------------------------
(* Recommend: get_recommended_jobs_for_student *)

\* the embedding check left out
student_has_embedding_any(sid) == TRUE

\* SELECT 1 FROM student_embeddings WHERE student_id = :sid, and the inner
\* JOIN student_embeddings of the retrieval query
student_has_embedding(sid) == \E r \in student_embeddings : r.student_id = sid

\* the vector_score column of the retrieval query (inner joins: never NULL)
RetrievedVectorScore(jid) == RoundHalfAway(RawSimilarity(jid), RawScale \div Scale)

\* Stage 1 WHERE clause: the job has an embedding, is active and its raw
\* similarity reaches the retrieval threshold (the student has an embedding)
IsCandidate(jid) ==
    /\ jid \in JobEmbeddingIds
    /\ jobs[jid].status = "active"
    /\ RawSimilarity(jid) >= VECTOR_RETRIEVAL_THRESHOLD

\* an exclusive threshold: `if composite <= COMPOSITE_THRESHOLD: continue`
accepted_exclusive(entry) == Val(entry.match_score) > COMPOSITE_THRESHOLD

\* `if composite < COMPOSITE_THRESHOLD: continue`
accepted(entry) == ~(Val(entry.match_score) < COMPOSITE_THRESHOLD)

\* Stage 2 + threshold + sort + pagination over the candidates in the order
\* the retrieval delivered them
recommend_from(sid, candidates, limit, offset) ==
    LET skill_results == _compute_skill_overlap(sid, candidates)
        vscore(jid)   == LET c == Some(RetrievedVectorScore(jid))
                         IN  IF Truthy(c) THEN Val(c) ELSE 0
        scored        == [ i \in 1 .. Len(candidates) |->
                            WithJobId(candidates[i],
                              match_fields(StudentData(sid), jobs[candidates[i]],
                                           vscore(candidates[i]),
                                           skill_results[candidates[i]])) ]
        final_jobs    == Filter(scored, [ i \in 1 .. Len(scored) |-> accepted(scored[i]) ])
    IN  Slice(SortByMatchScoreDesc(final_jobs), offset, limit)

\* the possible results of get_recommended_jobs_for_student
get_recommended_jobs_for_student(sid, limit, offset) ==
    IF ~student_has_embedding(sid) THEN { << >> }
    ELSE IF sid \notin DOMAIN students THEN { << >> }
    ELSE LET cand == { j \in DOMAIN jobs : IsCandidate(j) }
             vs == [ j \in cand |-> RetrievedVectorScore(j) ]
         IN  IF cand = {} THEN { << >> }
             ELSE { recommend_from(sid, q, limit, offset) : q \in OrdersDesc(cand, vs) }

-----------------------------------------------------------------------------
(* Browse: get_all_active_jobs.  student_id is nullable; a filter that is  *)
(* the empty string does not filter.  The text search is not modelled      *)
(* (search = "").                                                          *)

\* the WHERE clauses of get_all_active_jobs
BrowseMatches(jid, employment_type, remote_type, location) ==
    /\ jobs[jid].status = "active"
    /\ employment_type # "" => jobs[jid].employment_type = employment_type
    /\ remote_type # "" => jobs[jid].remote_type = remote_type
    /\ location # << >> =>
         /\ jobs[jid].location # None
         /\ Contains(Lower(Val(jobs[jid].location)), Lower(location))

\* `float(job["vector_score"]) if job.get("vector_score") else None`
VectorScoreOrNone(student_id, jid) ==
    IF student_id = None THEN None
    ELSE LET c == VectorScoreColumn(Val(student_id), jid)
         IN  IF Truthy(c) THEN c ELSE None

\* the students row never read: the defaults are kept
BrowseStudentData_defaults(student_id) ==
    [ experience_years |-> 0, preferred_job_types |-> {},
      preferred_remote_types |-> {}, preferred_locations |-> {} ]

\* the defaults get_all_active_jobs starts from, replaced by the students
\* row when a student is given
BrowseStudentData(student_id) ==
    IF student_id = None
    THEN [ experience_years |-> 0, preferred_job_types |-> {},
           preferred_remote_types |-> {}, preferred_locations |-> {} ]
    ELSE StudentData(Val(student_id))

\* the loop over the rows of one page
browse_rows(student_id, rows) ==
    LET skill_results ==
          IF student_id # None /\ rows # << >>
          THEN _compute_skill_overlap(Val(student_id), rows) ELSE << >>
    IN  [ i \in 1 .. Len(rows) |->
            LET jid == rows[i]
                vector_score == VectorScoreOrNone(student_id, jid)
            IN  IF vector_score # None /\ student_id # None
                THEN WithJobId(jid, match_fields(BrowseStudentData(student_id),
                                   jobs[jid], Val(vector_score), skill_results[jid]))
                ELSE WithJobId(jid, no_match_fields) ]

\* the possible results of get_all_active_jobs: ORDER BY posted_at DESC,
\* LIMIT / OFFSET in the query
get_all_active_jobs(student_id, employment_type, remote_type, location, limit, offset) ==
    LET hit == { j \in DOMAIN jobs :
                   BrowseMatches(j, employment_type, remote_type, location) }
        posted == [ j \in hit |-> jobs[j].posted_at ]
    IN  { browse_rows(student_id, Slice(q, offset, limit)) :
            q \in OrdersDesc(hit, posted) }

-----------------------------------------------------------------------------
(* Stage 3: _get_gap_courses.  A skill's name is its id; title, slug and   *)
(* price of a course are not modelled.                                     *)

\* LIMIT 10
GapCourseLimit == 10

\* the WHERE clause without `c.is_published = true`
is_gap_candidate_unpublished(cs, skill_names) ==
    /\ cs.skill_id \in skills
    /\ cs.course_id \in DOMAIN courses
    /\ \E i \in 1 .. Len(skill_names) : skill_names[i] = cs.skill_id

\* a row of course_skills JOIN skills JOIN courses that passes
\* WHERE s.name = ANY(:skill_names) AND c.is_published = true
is_gap_candidate(cs, skill_names) ==
    /\ cs.skill_id \in skills
    /\ cs.course_id \in DOMAIN courses
    /\ \E i \in 1 .. Len(skill_names) : skill_names[i] = cs.skill_id
    /\ courses[cs.course_id].is_published

\* a set of integers as the ascending sequence (ORDER BY c.course_id)
RECURSIVE Ascending(_)
Ascending(S) ==
    IF S = {} THEN << >>
    ELSE LET least == CHOOSE x \in S : \A y \in S : x <= y
         IN  << least >> \o Ascending(S \ {least})

\* _get_gap_courses(missing_skill_names): one row per course (DISTINCT ON),
\* by course_id, at most 10.  teaches_skills is ARRAY_AGG(s.name) over the
\* course's rows that passed the WHERE clause; the query leaves the order
\* of the array open and the rows of one course carry different names, so
\* the array is modelled as the set of its elements.
_get_gap_courses(missing_skill_names) ==
    IF missing_skill_names = << >> THEN << >>
    ELSE
      LET rows == { cs \in course_skills : is_gap_candidate(cs, missing_skill_names) }
          ids  == Ascending({ cs.course_id : cs \in rows })
      IN  [ k \in 1 .. Min(Len(ids), GapCourseLimit) |->
              [ course_id |-> ids[k],
                teaches_skills |->
                  { cs.skill_id : cs \in { r \in rows : r.course_id = ids[k] } } ] ]

-----------------------------------------------------------------------------
(* Detail: get_job_detail.  The match fields of the response are modelled; *)
(* None is the 404 of the endpoint.                                        *)

\* the match fields of a Detail response with its gap_courses
WithGapCourses(row, gap_courses) ==
    [ job_id |-> row.job_id, match_score |-> row.match_score,
      match_breakdown |-> row.match_breakdown,
      matched_skills |-> row.matched_skills,
      missing_skills |-> row.missing_skills,
      gap_courses |-> gap_courses ]

get_job_detail(job_id, student_id) ==
    IF job_id \notin DOMAIN jobs THEN None
    ELSE
      LET vector_score == VectorScoreOrNone(student_id, job_id)
      IN  IF vector_score # None /\ student_id # None
          THEN LET skill_data ==
                     _compute_skill_overlap(Val(student_id), << job_id >>)[job_id]
                   missing_names ==
                     [ i \in 1 .. Len(skill_data.missing_skills) |->
                         skill_data.missing_skills[i].skill_name ]
               IN  Some(WithGapCourses(
                     WithJobId(job_id,
                       match_fields(StudentData(Val(student_id)), jobs[job_id],
                                    Val(vector_score), skill_data)),
                     _get_gap_courses(missing_names)))
          ELSE Some(WithGapCourses(WithJobId(job_id, no_match_fields), << >>))

-----------------------------------------------------------------------------
(* ScoreForApplication: compute_composite_for_application *)

compute_composite_for_application(student_id, job_id) ==
    LET score == VectorScoreColumn(student_id, job_id)
    IN  IF ~Truthy(score) THEN None
        ELSE IF job_id \notin DOMAIN jobs THEN None
        ELSE
          LET sd == StudentData(student_id)
              jr == jobs[job_id]
              skill_score ==
                _compute_skill_overlap(student_id, << job_id >>)[job_id].skill_score
              experience_score == _compute_experience_fit(sd.experience_years,
                                      jr.experience_min_years, jr.experience_max_years)
              preference_score == _compute_preference_fit(sd.preferred_remote_types,
                                      sd.preferred_job_types, sd.preferred_locations,
                                      jr.remote_type, jr.employment_type, jr.location)
          IN  Some(_compute_composite(Val(score), skill_score, experience_score,
                                      preference_score))

-----------------------------------------------------------------------------
(* Apply: apply_to_job (api/v1/endpoints/student_jobs.py).  The            *)
(* notifications it sends are not part of the model.                       *)

\* round(composite_score * 100, 2): a percentage with 2 decimals, in 1/100
\* of a percent, which is the composite's own number of 1/10000
admin_match_score_of(composite_score) ==
    IF composite_score # None THEN Some(Val(composite_score)) ELSE None

HasApplied(student_id, job_id) ==
    \E i \in 1 .. Len(applications) :
        applications[i].student_id = student_id /\ applications[i].job_id = job_id

\* the HTTP status apply_to_job ends with
apply_status(student_id, job_id) ==
    IF job_id \notin DOMAIN jobs THEN 404
    ELSE IF jobs[job_id].status # "active" THEN 400
    ELSE IF HasApplied(student_id, job_id) THEN 409
    ELSE 200

\* the row apply_to_job inserts
new_application(student_id, job_id) ==
    [ application_id |-> Len(applications) + 1,
      student_id |-> student_id,
      job_id |-> job_id,
      status |-> "pending_admin_review",
      company_stage |-> None,
      forwarded_at |-> None,
      admin_match_score |->
        admin_match_score_of(compute_composite_for_application(student_id, job_id)) ]

-----------------------------------------------------------------------------
(* Admin applicant list: get_job_applicants (api/v1/endpoints/admin.py),   *)
(* with status = "all", search = "" and the default sort (match_score      *)
(* descending).                                                            *)

\* ROUND(COALESCE((1.0 - (je.embedding <=> se.embedding))::numeric, 0), 4)
ApplicantVectorScore(sid, jid) ==
    LET c == VectorScoreColumn(sid, jid) IN IF c = None THEN 0 ELSE Val(c)

\* the applications of a job, ORDER BY applied_at DESC (latest first)
RECURSIVE Reverse(_)
Reverse(q) == IF q = << >> THEN << >> ELSE Reverse(Tail(q)) \o << Head(q) >>

JobApplications(job_id) ==
    LET keep == [ i \in 1 .. Len(applications) |->
                    /\ applications[i].job_id = job_id
                    /\ applications[i].student_id \in DOMAIN students ]
    IN  Reverse(Filter(applications, keep))

\* one entry of the applicant list; match_score is round(composite * 100, 1),
\* a percentage in tenths
applicant_entry(app, job_id) ==
    LET sid == app.student_id
        v   == ApplicantVectorScore(sid, job_id)
        vector_score == IF v # 0 THEN v ELSE 0
        skill_data   == _compute_skill_overlap(sid, << job_id >>)[job_id]
        f == match_fields(students[sid], jobs[job_id], vector_score, skill_data)
    IN  [ application_id |-> app.application_id,
          student_id |-> sid,
          match_score |-> Some(RoundHalfEven(Val(f.match_score), 10)),
          match_breakdown |-> f.match_breakdown,
          matched_skills |-> f.matched_skills,
          missing_skills |-> f.missing_skills,
          admin_match_score |->
            IF Truthy(app.admin_match_score) THEN app.admin_match_score ELSE None ]

\* None is the 404 of an unknown job; min_match is a percentage
get_job_applicants(job_id, min_match, limit, offset) ==
    IF job_id \notin DOMAIN jobs THEN None
    ELSE
      LET all  == JobApplications(job_id)
          rows == Slice(all, offset, limit)
          applicants == [ i \in 1 .. Len(rows) |-> applicant_entry(rows[i], job_id) ]
          enough == [ i \in 1 .. Len(applicants) |->
                        Val(applicants[i].match_score) >= 10 * min_match ]
          kept == IF min_match > 0 THEN Filter(applicants, enough) ELSE applicants
      IN  Some([ applicants |-> SortByMatchScoreDesc(kept),
                 total |-> Len(all), job_id |-> job_id ])

-----------------------------------------------------------------------------
(* Embedding generation: services/embedding_service.py and                 *)
(* JobService._generate_job_embedding.  A text is a sequence of tokens.    *)

\* text = text[:8000]
EmbedInputLimit == 8000

\* hashlib.sha256(text.encode("utf-8")).hexdigest(): injective on the texts
\* of the model
text_hash(text) == << "sha256" >> \o text

\* generate_embedding(text): the vector the embedding API returns for the
\* truncated text, represented by that text
generate_embedding(text) ==
    << "vec" >> \o SubSeq(text, 1, Min(Len(text), EmbedInputLimit))

\* str(n) of a natural number: its decimal digits
DigitChar(d) == << "0", "1", "2", "3", "4", "5", "6", "7", "8", "9" >>[d + 1]

RECURSIVE IntToStr(_)
IntToStr(n) ==
    IF n < 10 THEN << DigitChar(n) >>
    ELSE IntToStr(n \div 10) \o << DigitChar(n % 10) >>

\* "\n".join(parts)
RECURSIVE JoinLines(_)
JoinLines(parts) ==
    IF parts = << >> THEN << >>
    ELSE IF Len(parts) = 1 THEN parts[1]
    ELSE parts[1] \o << "\n" >> \o JoinLines(Tail(parts))

\* build_student_text with the bio and the experience (the other sources
\* of the text are empty)
build_student_text(bio, experience_years) ==
    JoinLines(
      (IF bio # << >> THEN << << "Bio: " >> \o bio >> ELSE << >>)
      \o (IF experience_years # 0
          THEN << << "Experience: " >> \o IntToStr(experience_years) \o << " years" >> >>
          ELSE << >>))

\* employment_type.replace('_', ' ')
ReplaceUnderscore(employment_type) ==
    CASE employment_type = "full_time" -> "full time"
      [] employment_type = "part_time" -> "part time"
      [] OTHER -> employment_type

\* the text _generate_job_embedding builds from the title and the employment
\* type (the other parts are empty)
build_job_text(title, employment_type) ==
    JoinLines(
      (IF title # << >> THEN << << "Job Title: " >> \o title >> ELSE << >>)
      \o (IF employment_type # ""
          THEN << << "Employment Type: ", ReplaceUnderscore(employment_type) >> >>
          ELSE << >>))

\* the unique constraint on student_embeddings.student_id dropped
unique_violation_never(sid) == FALSE

\* student_id ... unique=True: an INSERT of a second row for the student
\* fails
unique_violation(sid) == \E r \in student_embeddings : r.student_id = sid

\* a student_embeddings row generated from the text of a student whose bio
\* is "a"
PlainStudentEmbedding(sid) ==
    [ student_id |-> sid,
      source_text_hash |-> Some(text_hash(build_student_text(<< "a" >>, 0))),
      embedding |-> generate_embedding(build_student_text(<< "a" >>, 0)) ]

\* a job_embeddings row of a job titled "t" whose vector is at cosine
\* distance d from the student's
PlainJobEmbedding(jid, d) ==
    [ job_id |-> jid,
      source_text_hash |-> Some(text_hash(build_job_text(<< "t" >>, "full_time"))),
      embedding |-> d ]

-----------------------------------------------------------------------------
(* The signal computers on their own: each specification draws the inputs  *)
(* of one computer and applies it once.                                    *)

EmptyDb ==
    /\ skills = {}
    /\ students = << >>
    /\ student_skills = {}
    /\ student_embeddings = {}
    /\ jobs = << >>
    /\ job_skills = {}
    /\ job_embeddings = {}
    /\ applications = << >>
    /\ application_status_history = << >>
    /\ courses = << >>
    /\ course_skills = {}

\* a nullable number of years of a job's experience range
OptJobExp == { None } \cup { Some(y) : y \in 0 .. MaxJobExp }

InitExp ==
    /\ EmptyDb
    /\ req \in [ op : { "experience_fit" },
                 student_exp : 0 .. MaxStudentExp,
                 job_exp_min : OptJobExp,
                 job_exp_max : OptJobExp ]
    /\ resp = None

ExperienceFit ==
    /\ req.op = "experience_fit"
    /\ resp = None
    /\ resp' = Some(_compute_experience_fit(req.student_exp, req.job_exp_min,
                                            req.job_exp_max))
    /\ UNCHANGED << db, req >>

NextExp == ExperienceFit

SpecExp == InitExp /\ [][NextExp]_vars

\* remote_type enum of models/job.py
RemoteTypes == { "remote", "on_site", "hybrid" }

\* employment_type enum of models/job.py (three of its five values)
EmploymentTypes == { "full_time", "part_time", "internship" }

\* location strings over the alphabet {a, A, b, B}
Locations == { << "a" >>, << "A", "b" >>, << "B" >> }

JobLocations == { None, Some(<< >>), Some(<< "a" >>), Some(<< "a", "B" >>),
                  Some(<< "b", "a" >>) }

InitPref ==
    /\ EmptyDb
    /\ req \in [ op : { "preference_fit" },
                 student_pref_remote : SUBSET RemoteTypes,
                 student_pref_job_types : SUBSET EmploymentTypes,
                 student_pref_locations : SUBSET Locations,
                 job_remote_type : RemoteTypes,
                 job_employment_type : EmploymentTypes,
                 job_location : JobLocations ]
    /\ resp = None

PreferenceFit ==
    /\ req.op = "preference_fit"
    /\ resp = None
    /\ resp' = Some(_compute_preference_fit(req.student_pref_remote,
                        req.student_pref_job_types, req.student_pref_locations,
                        req.job_remote_type, req.job_employment_type,
                        req.job_location))
    /\ UNCHANGED << db, req >>

NextPref == PreferenceFit

SpecPref == InitPref /\ [][NextPref]_vars

\* skill ids of the model
SkillIds == { 1, 2, 3 }

\* the one student of the model
StudentIds == { 1 }

JobIds == { 1, 2 }

\* largest years_of_experience of a student skill and largest
\* min_experience_years of a requirement
MaxSkillYears == 1

\* proficiency levels on both sides of the bonus gate (>= 4)
ProfLevels == { 3, 4 }

\* a students row with no experience and no preferences
PlainStudent ==
    [ bio |-> << "a" >>, experience_years |-> 0, preferred_job_types |-> {},
      preferred_remote_types |-> {}, preferred_locations |-> {} ]

\* an active jobs row with the column defaults
PlainJob(jid) ==
    [ title |-> << "t" >>, status |-> "active", experience_min_years |-> Some(0),
      experience_max_years |-> None, employment_type |-> "full_time",
      remote_type |-> "on_site", location |-> None, posted_at |-> jid,
      applications_count |-> 0 ]

\* what a student may hold of one skill: nothing, or a (level, years) row
StudentSkillChoices ==
    { None } \cup { Some([ proficiency_level |-> p, years_of_experience |-> y ]) :
                      p \in ProfLevels, y \in 0 .. MaxSkillYears }

\* what a job may require of one skill: nothing, or a (mandatory, min years) row
JobSkillChoices ==
    { None } \cup { Some([ is_mandatory |-> m, min_experience_years |-> y ]) :
                      m \in BOOLEAN, y \in { None, Some(MaxSkillYears) } }

StudentSkillRows(sid, f) ==
    { [ student_id |-> sid, skill_id |-> k,
        proficiency_level |-> Val(f[k]).proficiency_level,
        years_of_experience |-> Val(f[k]).years_of_experience ] :
      k \in { x \in DOMAIN f : f[x] # None } }

JobSkillRowsOf(jid, g) ==
    { [ job_id |-> jid, skill_id |-> k,
        is_mandatory |-> Val(g[k]).is_mandatory,
        min_experience_years |-> Val(g[k]).min_experience_years ] :
      k \in { x \in DOMAIN g : g[x] # None } }

\* Job 1 has any requirements over SkillIds, job 2 has none.
InitSkill ==
    /\ skills = SkillIds
    /\ students = [ s \in StudentIds |-> PlainStudent ]
    /\ \E f \in [ SkillIds -> StudentSkillChoices ] :
           student_skills = StudentSkillRows(1, f)
    /\ student_embeddings = {}
    /\ jobs = [ j \in JobIds |-> PlainJob(j) ]
    /\ \E g \in [ SkillIds -> JobSkillChoices ] :
           job_skills = JobSkillRowsOf(1, g)
    /\ job_embeddings = {}
    /\ applications = << >>
    /\ application_status_history = << >>
    /\ courses = << >>
    /\ course_skills = {}
    /\ req \in [ op : { "skill_overlap" }, student_id : StudentIds,
                 job_ids : { << 1 >>, << 2, 1 >> } ]
    /\ resp = None

SkillOverlap ==
    /\ req.op = "skill_overlap"
    /\ resp = None
    /\ resp' = Some(_compute_skill_overlap(req.student_id, req.job_ids))
    /\ UNCHANGED << db, req >>

NextSkill == SkillOverlap

SpecSkill == InitSkill /\ [][NextSkill]_vars

-----------------------------------------------------------------------------
(* Claims about the skill overlap (SpecSkill) *)

SkillDone == req.op = "skill_overlap" /\ resp # None

\* the requirements of job jid, and the student's row for a requirement
C5_Reqs(jid) == { r \in job_skills : r.job_id = jid }

C5_Held(sid, r) ==
    \E ss \in student_skills : ss.student_id = sid /\ ss.skill_id = r.skill_id

C5_Bonus(sid, jid) ==
    Cardinality({ r \in C5_Reqs(jid) :
        \E ss \in student_skills :
            /\ ss.student_id = sid /\ ss.skill_id = r.skill_id
            /\ ss.proficiency_level >= 4
            /\ ss.years_of_experience >=
                 (IF r.min_experience_years = None THEN 0
                  ELSE Val(r.min_experience_years)) })

\* the claim's formula before the clamp, as a fraction
C5_Formula(sid, jid) ==
    LET mt == Cardinality({ r \in C5_Reqs(jid) : r.is_mandatory })
        ot == Cardinality({ r \in C5_Reqs(jid) : ~r.is_mandatory })
        mm == Cardinality({ r \in C5_Reqs(jid) : r.is_mandatory /\ C5_Held(sid, r) })
        om == Cardinality({ r \in C5_Reqs(jid) : ~r.is_mandatory /\ C5_Held(sid, r) })
        b  == C5_Bonus(sid, jid)
        o1 == IF ot >= 1 THEN ot ELSE 1
    IN  IF mt > 0
        THEN Frac(70 * mm * o1 + 30 * om * mt + 5 * b * mt * o1, 100 * mt * o1)
        ELSE Frac(100 * (mm + om) + 5 * b * (mt + ot), 100 * (mt + ot))

\* min(1, formula)
C5_Clamped(sid, jid) ==
    LET f == C5_Formula(sid, jid) IN IF f.n >= f.d THEN Frac(1, 1) ELSE f

\* C5 as stated: for every job with at least one requirement skill_score
\* equals min(1, formula) exactly.
C5_SkillScoreExact ==
    SkillDone =>
      \A jid \in DOMAIN Val(resp) :
        C5_Reqs(jid) # {} =>
          LET f == C5_Clamped(req.student_id, jid)
              sc == Val(resp)[jid].skill_score
          IN  sc # None /\ Val(sc) * f.d = Scale * f.n

\* C5 amended: for every job with at least one requirement skill_score is
\* min(1, formula) rounded to 4 decimals (the nearest multiple of 0.0001).
C5_SkillScoreRounded ==
    SkillDone =>
      \A jid \in DOMAIN Val(resp) :
        C5_Reqs(jid) # {} =>
          LET f == C5_Clamped(req.student_id, jid)
              sc == Val(resp)[jid].skill_score
          IN  /\ sc # None
              /\ 2 * (Val(sc) * f.d - Scale * f.n) <= f.d
              /\ 2 * (Scale * f.n - Val(sc) * f.d) <= f.d

\* three mandatory requirements, one of them held with the bonus:
\* 0.7 * 1/3 + 0.05 = 0.28333.., reported as 0.2833
C5_Witness ==
    /\ SkillDone
    /\ 1 \in DOMAIN Val(resp)
    /\ Cardinality({ r \in C5_Reqs(1) : r.is_mandatory }) = 3
    /\ Cardinality({ r \in C5_Reqs(1) : C5_Held(req.student_id, r) }) = 1
    /\ C5_Bonus(req.student_id, 1) = 1
    /\ Val(resp)[1].skill_score = Some(2833)

\* C6: for every job with at least one requirement, 0 <= skill_score <= 1.
C6_SkillScoreBounds ==
    SkillDone =>
      \A jid \in DOMAIN Val(resp) :
        C5_Reqs(jid) # {} =>
          LET sc == Val(resp)[jid].skill_score
          IN  sc # None /\ 0 <= Val(sc) /\ Val(sc) <= Scale

\* every requirement held and three bonuses: the formula gives 1.15, the
\* score is 1.0
C6_Witness ==
    /\ SkillDone
    /\ 1 \in DOMAIN Val(resp)
    /\ C5_Bonus(req.student_id, 1) = 3
    /\ C5_Formula(req.student_id, 1).n > C5_Formula(req.student_id, 1).d
    /\ Val(resp)[1].skill_score = Some(Scale)

-----------------------------------------------------------------------------
(* Claims about the experience fit (SpecExp) *)

ExpDone == req.op = "experience_fit" /\ resp # None

\* C7: for a job with bounds 0 <= min <= max the experience fit is 1.0 at
\* student = min and at student = max, is < 1.0 at student = min - 1 (min >= 1),
\* and is < 1.0 but >= 0.5 at student = max + 1.
C7_ExperienceBoundaries ==
    (ExpDone /\ req.job_exp_min # None /\ req.job_exp_max # None
       /\ Val(req.job_exp_min) <= Val(req.job_exp_max)) =>
      LET e  == Val(resp)
          st == req.student_exp
          mn == Val(req.job_exp_min)
          mx == Val(req.job_exp_max)
      IN  /\ st = mn => e.n = e.d
          /\ st = mx => e.n = e.d
          /\ (mn >= 1 /\ st = mn - 1) => e.n < e.d
          /\ st = mx + 1 => (e.n < e.d /\ 2 * e.n >= e.d)

\* C7 outside the failing case: the same boundaries for every job whose
\* maximum is not 0.
C7_BoundariesPositiveMax ==
    (ExpDone /\ req.job_exp_max # None /\ Val(req.job_exp_max) # 0) =>
      C7_ExperienceBoundaries

\* C8: the experience fit equals the piecewise reference: 0.8 with no range
\* on either side; with bounds min <= max it is 1.0 inside the range,
\* max(0, 1 - (min - student)/min) below it and max(0.5, 1 - (student - max)/10)
\* above it.
C8_ExperiencePiecewise ==
    ExpDone =>
      LET e  == Val(resp)
          st == req.student_exp
      IN  /\ (req.job_exp_min = None /\ req.job_exp_max = None) => 5 * e.n = 4 * e.d
          /\ (req.job_exp_min # None /\ req.job_exp_max # None
                /\ Val(req.job_exp_min) <= Val(req.job_exp_max)) =>
               LET mn == Val(req.job_exp_min)
                   mx == Val(req.job_exp_max)
               IN  /\ (mn <= st /\ st <= mx) => e.n = e.d
                   /\ st < mn => e.n * mn = Max(0, mn - (mn - st)) * e.d
                   /\ st > mx => e.n * 10 = Max(5, 10 - (st - mx)) * e.d

\* C8 outside the failing case (maximum not 0)
C8_PiecewisePositiveMax ==
    (ExpDone /\ req.job_exp_max # None /\ Val(req.job_exp_max) # 0) =>
      C8_ExperiencePiecewise

-----------------------------------------------------------------------------
(* Claims about the preference fit (SpecPref) *)

PrefDone == req.op = "preference_fit" /\ resp # None

\* remote / employment sub-signal of the claim, in tenths
C9_TypeRef(pref, t) == IF pref = {} THEN 7 ELSE IF t \in pref THEN 10 ELSE 3

\* location sub-signal of the claim, in tenths
C9_LocationRef(prefs, loc) ==
    IF prefs = {} \/ loc = None \/ loc = Some(<< >>) THEN 7
    ELSE IF \E pl \in prefs : \/ Contains(Lower(Val(loc)), Lower(pl))
                              \/ Contains(Lower(pl), Lower(Val(loc)))
         THEN 10 ELSE 5

\* C9: the preference fit is the mean of the three sub-signals (1.0 / 0.3 /
\* 0.7 for remote and employment type, 1.0 / 0.5 / 0.7 for location) rounded
\* to 4 decimals, and is exactly 0.7 when all three preference sets are empty.
C9_PreferenceMean ==
    PrefDone =>
      LET total == C9_TypeRef(req.student_pref_remote, req.job_remote_type)
                     + C9_TypeRef(req.student_pref_job_types, req.job_employment_type)
                     + C9_LocationRef(req.student_pref_locations, req.job_location)
          p     == Val(resp)
          diff  == 30 * p - total * Scale
      IN  /\ 2 * diff <= 30 /\ 2 * (-diff) <= 30
          /\ (req.student_pref_remote = {} /\ req.student_pref_job_types = {}
                /\ req.student_pref_locations = {}) => p = 7000

\* remote preferred (1.0), employment type not preferred (0.3), location
\* matching only when case is ignored (1.0): mean 0.7667
C9_Witness ==
    /\ PrefDone
    /\ req.job_remote_type \in req.student_pref_remote
    /\ req.student_pref_job_types # {}
    /\ req.job_employment_type \notin req.student_pref_job_types
    /\ req.student_pref_locations = { << "A", "b" >> }
    /\ req.job_location = Some(<< "a", "B" >>)
    /\ resp = Some(7667)

-----------------------------------------------------------------------------
(* The matching operations over a stored catalogue (Spec) *)

\* cosine distances of a job's vector to the student's, in 1/100000:
\* similarity -0.5, 0.0, 0.44996, 0.45, 0.7180, 0.7181, 0.9
Distances == { 150000, 100000, 55004, 55000, 28200, 28190, 10000 }

\* (experience_min_years, experience_max_years) of job 1
ExpRanges == { << Some(0), None >>, << Some(2), Some(MaxJobExp) >> }

\* the student's experience: below and inside the range 2..MaxJobExp
StudentExps == { 1, 3 }

\* the student's preferences: none, or remote work only
StudentPrefs == { {}, { "remote" } }

\* the student holds skill 1 (level 4, 1 year) or no skill
StudentSkillSets ==
    { {}, { [ student_id |-> 1, skill_id |-> 1, proficiency_level |-> 4,
              years_of_experience |-> 1 ] } }

\* a job requires nothing, or skill 1 as mandatory
RequirementSets(jid) ==
    { {}, { [ job_id |-> jid, skill_id |-> 1, is_mandatory |-> TRUE,
              min_experience_years |-> None ] } }

Statuses == { "active", "paused" }

\* the default page size of the endpoints
DefaultLimit == 50

InitCatalogue ==
    /\ skills = SkillIds
    /\ \E e \in StudentExps, pr \in StudentPrefs :
         students = [ s \in StudentIds |->
                        [ PlainStudent EXCEPT !.experience_years = e,
                                              !.preferred_remote_types = pr ] ]
    /\ student_skills \in StudentSkillSets
    /\ \E S \in SUBSET StudentIds :
         student_embeddings = { PlainStudentEmbedding(x) : x \in S }
    /\ \E st1, st2 \in Statuses, rg \in ExpRanges :
         jobs = [ j \in JobIds |->
                    IF j = 1
                    THEN [ PlainJob(1) EXCEPT !.status = st1,
                             !.experience_min_years = rg[1],
                             !.experience_max_years = rg[2] ]
                    ELSE [ PlainJob(j) EXCEPT !.status = st2 ] ]
    /\ \E r1 \in RequirementSets(1), r2 \in RequirementSets(2) :
         job_skills = r1 \cup r2
    /\ \E d1 \in { None } \cup { Some(d) : d \in Distances },
          d2 \in { None, Some(10000) } :
         job_embeddings =
           { PlainJobEmbedding(j, Val(IF j = 1 THEN d1 ELSE d2)) :
               j \in { x \in JobIds : (IF x = 1 THEN d1 ELSE d2) # None } }
    /\ applications = << >>
    /\ application_status_history = << >>
    /\ courses = << [ is_published |-> TRUE ], [ is_published |-> FALSE ] >>
    /\ course_skills = { [ course_id |-> c, skill_id |-> 1, is_primary |-> TRUE ] :
                           c \in { 1, 2 } }

\* no call is being served
Idle == req = [ op |-> "none" ] /\ resp = None

Init ==
    /\ InitCatalogue
    /\ Idle

Recommend ==
    \E sid \in StudentIds, limit \in { 1, DefaultLimit }, offset \in { 0, 1 } :
      /\ Idle
      /\ req' = [ op |-> "recommend", student_id |-> sid, limit |-> limit,
                  offset |-> offset ]
      /\ \E r \in get_recommended_jobs_for_student(sid, limit, offset) :
           resp' = Some(r)
      /\ UNCHANGED db

Browse ==
    \E student_id \in { None } \cup { Some(x) : x \in StudentIds },
       remote_type \in { "", "remote" },
       page \in { << DefaultLimit, 0 >>, << 1, 1 >> } :
      /\ Idle
      /\ req' = [ op |-> "browse", student_id |-> student_id,
                  employment_type |-> "", remote_type |-> remote_type,
                  location |-> << >>, limit |-> page[1], offset |-> page[2] ]
      /\ \E r \in get_all_active_jobs(student_id, "", remote_type, << >>,
                                      page[1], page[2]) :
           resp' = Some(r)
      /\ UNCHANGED db

\* Detail and ScoreForApplication are also called with ids that have no row:
\* job 3 and student 2

\* a Detail that updates the row of the job it shows
Detail_touching_job ==
    \E job_id \in JobIds \cup { 3 },
       student_id \in { None } \cup { Some(x) : x \in StudentIds \cup { 2 } } :
      /\ Idle
      /\ req' = [ op |-> "detail", job_id |-> job_id, student_id |-> student_id ]
      /\ resp' = Some(get_job_detail(job_id, student_id))
      /\ jobs' = IF job_id \in DOMAIN jobs
                 THEN [ jobs EXCEPT ![job_id].applications_count = @ + 1 ]
                 ELSE jobs
      /\ UNCHANGED << application_status_history, courses, course_skills, skills, students, student_skills, student_embeddings,
                      job_skills, job_embeddings, applications >>

Detail ==
    \E job_id \in JobIds \cup { 3 },
       student_id \in { None } \cup { Some(x) : x \in StudentIds \cup { 2 } } :
      /\ Idle
      /\ req' = [ op |-> "detail", job_id |-> job_id, student_id |-> student_id ]
      /\ resp' = Some(get_job_detail(job_id, student_id))
      /\ UNCHANGED db

ScoreForApplication ==
    \E sid \in StudentIds \cup { 2 }, job_id \in JobIds \cup { 3 } :
      /\ Idle
      /\ req' = [ op |-> "score", student_id |-> sid, job_id |-> job_id ]
      /\ resp' = Some(compute_composite_for_application(sid, job_id))
      /\ UNCHANGED db

\* the response is delivered; the next call can be served
Return ==
    /\ resp # None
    /\ req' = [ op |-> "none" ]
    /\ resp' = None
    /\ UNCHANGED db

Next == Recommend \/ Browse \/ Detail \/ ScoreForApplication \/ Return

Spec == Init /\ [][Next]_vars

-----------------------------------------------------------------------------
(* Applying and the admin's applicant list (SpecAdmin) *)

\* cosine distances of job 1 in SpecAdmin: similarity -0.5, 0.7181, 0.9
AdminDistances == { 150000, 28190, 10000 }

\* Job 2 is a plain active posting with an embedding.
InitAdminCatalogue ==
    /\ skills = SkillIds
    /\ \E e \in StudentExps :
         students = [ s \in StudentIds |->
                        [ PlainStudent EXCEPT !.experience_years = e ] ]
    /\ student_skills \in StudentSkillSets
    /\ \E S \in SUBSET StudentIds :
         student_embeddings = { PlainStudentEmbedding(x) : x \in S }
    /\ \E st1 \in Statuses, rg \in ExpRanges :
         jobs = [ j \in JobIds |->
                    IF j = 1
                    THEN [ PlainJob(1) EXCEPT !.status = st1,
                             !.experience_min_years = rg[1],
                             !.experience_max_years = rg[2] ]
                    ELSE PlainJob(j) ]
    /\ job_skills \in RequirementSets(1)
    /\ \E d1 \in { None } \cup { Some(d) : d \in AdminDistances } :
         job_embeddings =
           { PlainJobEmbedding(j, IF j = 1 THEN Val(d1) ELSE 10000) :
               j \in { x \in JobIds : x = 2 \/ d1 # None } }
    /\ applications = << >>
    /\ application_status_history = << >>
    /\ courses = << >>
    /\ course_skills = {}

InitAdmin ==
    /\ InitAdminCatalogue
    /\ Idle

Apply ==
    \E sid \in StudentIds, job_id \in JobIds \cup { 3 } :
      /\ Idle
      /\ req' = [ op |-> "apply", student_id |-> sid, job_id |-> job_id ]
      /\ IF apply_status(sid, job_id) = 200
         THEN LET row == new_application(sid, job_id)
              IN  /\ applications' = Append(applications, row)
                  /\ jobs' = [ jobs EXCEPT ![job_id].applications_count = @ + 1 ]
                  /\ resp' = Some([ status_code |-> 200,
                                    application_id |-> row.application_id,
                                    match_score |-> row.admin_match_score ])
         ELSE /\ resp' = Some([ status_code |-> apply_status(sid, job_id) ])
              /\ UNCHANGED << applications, jobs >>
      /\ UNCHANGED << application_status_history, courses, course_skills, skills, students, student_skills, student_embeddings,
                      job_skills, job_embeddings >>

AdminApplicants ==
    \E job_id \in JobIds \cup { 3 }, min_match \in { 0, 65 } :
      /\ Idle
      /\ req' = [ op |-> "applicants", job_id |-> job_id, min_match |-> min_match,
                  limit |-> DefaultLimit, offset |-> 0 ]
      /\ resp' = Some(get_job_applicants(job_id, min_match, DefaultLimit, 0))
      /\ UNCHANGED db

NextAdmin == Apply \/ AdminApplicants \/ Return

SpecAdmin == InitAdmin /\ [][NextAdmin]_vars

-----------------------------------------------------------------------------
(* Claims about the matching operations (Spec) *)

\* the scored rows of the response being returned, whatever the operation:
\* records [job_id, b] with b the match_breakdown
ReportedBreakdowns ==
    IF resp = None THEN {}
    ELSE IF req.op \in { "recommend", "browse" } THEN
        { [ job_id |-> Val(resp)[i].job_id, b |-> Val(Val(resp)[i].match_breakdown) ] :
            i \in { k \in 1 .. Len(Val(resp)) : Val(resp)[k].match_breakdown # None } }
    ELSE IF req.op = "detail" /\ Val(resp) # None
              /\ Val(Val(resp)).match_breakdown # None THEN
        { [ job_id |-> req.job_id, b |-> Val(Val(Val(resp)).match_breakdown) ] }
    ELSE {}

\* the student the call is made for (calls without a student report no score)
CallStudent ==
    IF req.op \in { "browse", "detail" } THEN Val(req.student_id) ELSE req.student_id

\* the experience fit of the pair, not rounded
PairExperience(sid, jid) ==
    _compute_experience_fit(students[sid].experience_years,
                            jobs[jid].experience_min_years,
                            jobs[jid].experience_max_years)

PairPreference(sid, jid) ==
    _compute_preference_fit(students[sid].preferred_remote_types,
                            students[sid].preferred_job_types,
                            students[sid].preferred_locations,
                            jobs[jid].remote_type, jobs[jid].employment_type,
                            jobs[jid].location)

PairSkill(sid, jid) == _compute_skill_overlap(sid, << jid >>)[jid].skill_score

\* c (in 1/10000) is wv*v + ws*s + we*e + wp*p rounded to 4 decimals, for
\* weights in percent, v, s, p in 1/10000 and e a fraction
IsWeighted(c, wv, v, ws, sk, we, e, wp, p) ==
    LET exact == (wv * v + ws * sk + wp * p) * e.d + we * Scale * e.n
        den   == 100 * e.d
    IN  2 * (c * den - exact) <= den /\ 2 * (exact - c * den) <= den

\* the composite of a pair whose embeddings both exist
PairComposite(sid, jid) ==
    _compute_composite(Val(VectorScoreColumn(sid, jid)), PairSkill(sid, jid),
                       PairExperience(sid, jid), PairPreference(sid, jid))

\* C1: Recommend without pagination returns a job iff the job is active, its
\* similarity to the student's embedding is >= 0.45 and its composite is
\* >= 0.65 (inclusive), each such job once.
C1_RecommendIff ==
    (req.op = "recommend" /\ resp # None /\ req.offset = 0
       /\ req.limit = DefaultLimit) =>
      LET got == Val(resp)
      IN  /\ { got[i].job_id : i \in 1 .. Len(got) } =
               { j \in DOMAIN jobs :
                   /\ jobs[j].status = "active"
                   /\ req.student_id \in StudentEmbeddingIds
                   /\ j \in JobEmbeddingIds
                   /\ RawScale - JobDistance(j) >= 45000
                   /\ PairComposite(req.student_id, j) >= 6500 }
          /\ \A i, k \in 1 .. Len(got) : i # k => got[i].job_id # got[k].job_id
          /\ \A i \in 1 .. Len(got) :
               got[i].match_score = Some(PairComposite(req.student_id, got[i].job_id))

\* a returned job whose composite is exactly 0.6500
C1_Witness ==
    /\ req.op = "recommend" /\ resp # None /\ req.offset = 0
    /\ req.limit = DefaultLimit
    /\ \E i \in 1 .. Len(Val(resp)) : Val(resp)[i].match_score = Some(6500)

\* C2: for a job with no requirements, skill_score is null and the composite
\* is 0.55*vector + 0.30*experience + 0.15*preference rounded to 4 decimals,
\* in Recommend, Browse, Detail and ScoreForApplication.
C2_FallbackWeights ==
    /\ \A r \in ReportedBreakdowns :
         { q \in job_skills : q.job_id = r.job_id } = {} =>
           /\ r.b.skill_score = None
           /\ IsWeighted(r.b.composite_score, 55, r.b.vector_score, 0, 0,
                         30, PairExperience(CallStudent, r.job_id),
                         15, r.b.preference_score)
    /\ (req.op = "score" /\ resp # None /\ Val(resp) # None
          /\ { q \in job_skills : q.job_id = req.job_id } = {}) =>
         /\ PairSkill(req.student_id, req.job_id) = None
         /\ IsWeighted(Val(Val(resp)), 55,
                       Val(VectorScoreColumn(req.student_id, req.job_id)), 0, 0,
                       30, PairExperience(req.student_id, req.job_id),
                       15, PairPreference(req.student_id, req.job_id))

\* Detail of job 1 without requirements, student under-qualified (fit 1/2),
\* similarity 0.7181: 0.55*0.7181 + 0.30*0.5 + 0.15*0.7 = 0.649955 -> 0.65
C2_Witness ==
    /\ req.op = "detail" /\ req.job_id = 1
    /\ { q \in job_skills : q.job_id = 1 } = {}
    /\ \E r \in ReportedBreakdowns :
         /\ r.b.skill_score = None
         /\ r.b.vector_score = 7181
         /\ r.b.experience_score = 5000
         /\ r.b.preference_score = 7000
         /\ r.b.composite_score = 6500

\* C4: whenever skill_score is defined, 0 included, the composite is
\* 0.35*vector + 0.35*skill + 0.20*experience + 0.10*preference rounded to
\* 4 decimals; skill_score is null only for a job without requirements.
C4_NormalWeights ==
    /\ \A r \in ReportedBreakdowns :
         /\ r.b.skill_score # None =>
              IsWeighted(r.b.composite_score, 35, r.b.vector_score,
                         35, Val(r.b.skill_score),
                         20, PairExperience(CallStudent, r.job_id),
                         10, r.b.preference_score)
         /\ r.b.skill_score = None => { q \in job_skills : q.job_id = r.job_id } = {}
    /\ (req.op = "score" /\ resp # None /\ Val(resp) # None
          /\ { q \in job_skills : q.job_id = req.job_id } # {}) =>
         /\ PairSkill(req.student_id, req.job_id) # None
         /\ IsWeighted(Val(Val(resp)), 35,
                       Val(VectorScoreColumn(req.student_id, req.job_id)),
                       35, Val(PairSkill(req.student_id, req.job_id)),
                       20, PairExperience(req.student_id, req.job_id),
                       10, PairPreference(req.student_id, req.job_id))

\* a reported row whose skill_score is 0: the student holds none of the
\* required skills
C4_Witness ==
    \E r \in ReportedBreakdowns :
        /\ r.b.skill_score = Some(0)
        /\ r.b.vector_score = 9000
        /\ r.b.composite_score > 0

\* C10: every reported composite and sub-score lies in [0, 1].
C10_ScoresInUnitInterval ==
    /\ \A r \in ReportedBreakdowns :
         /\ 0 <= r.b.composite_score /\ r.b.composite_score <= Scale
         /\ 0 <= r.b.vector_score /\ r.b.vector_score <= Scale
         /\ r.b.skill_score # None =>
              (0 <= Val(r.b.skill_score) /\ Val(r.b.skill_score) <= Scale)
         /\ 0 <= r.b.experience_score /\ r.b.experience_score <= Scale
         /\ 0 <= r.b.preference_score /\ r.b.preference_score <= Scale
    /\ (req.op = "score" /\ resp # None /\ Val(resp) # None) =>
         (0 <= Val(Val(resp)) /\ Val(Val(resp)) <= Scale)

\* C10 for the pairs whose cosine distance is at most 1 (similarity >= 0)
C10_UnitIntervalNonNegativeSimilarity ==
    (\A j \in JobEmbeddingIds : JobDistance(j) <= RawScale) =>
      C10_ScoresInUnitInterval

\* C3 for the student-facing operations: a score is reported only for a
\* pair whose embeddings both exist.
C3_StudentOpsNeedBothEmbeddings ==
    /\ \A r \in ReportedBreakdowns :
         CallStudent \in StudentEmbeddingIds /\ r.job_id \in JobEmbeddingIds
    /\ (req.op = "score" /\ resp # None /\ Val(resp) # None) =>
         (req.student_id \in StudentEmbeddingIds /\ req.job_id \in JobEmbeddingIds)

-----------------------------------------------------------------------------
(* Claims about the apply-time snapshot and the applicant list (SpecAdmin) *)

\* C3: wherever a composite is reported it combines only the signals that
\* are defined for the pair: the student-facing operations, the apply-time
\* snapshot and the admin applicant list report no composite for a pair
\* whose student or job has no embedding.
C3_NoCompositeWithoutSimilarity ==
    /\ C3_StudentOpsNeedBothEmbeddings
    /\ \A i \in 1 .. Len(applications) :
         applications[i].admin_match_score # None =>
           /\ applications[i].student_id \in StudentEmbeddingIds
           /\ applications[i].job_id \in JobEmbeddingIds
    /\ (req.op = "applicants" /\ resp # None /\ Val(resp) # None) =>
         \A i \in 1 .. Len(Val(Val(resp)).applicants) :
           LET a == Val(Val(resp)).applicants[i]
           IN  a.match_breakdown # None =>
                 /\ a.student_id \in StudentEmbeddingIds
                 /\ req.job_id \in JobEmbeddingIds

\* C3 for the apply-time snapshot alone
C3_SnapshotNeedsBothEmbeddings ==
    \A i \in 1 .. Len(applications) :
        applications[i].admin_match_score # None =>
          /\ applications[i].student_id \in StudentEmbeddingIds
          /\ applications[i].job_id \in JobEmbeddingIds

-----------------------------------------------------------------------------
(* Claims about the order of a Recommend response (Spec) *)

RecommendDone == req.op = "recommend" /\ resp # None

\* C11, the part about one response: the jobs come by composite
\* non-increasing, and of two jobs with equal composite the one retrieval
\* delivered first (retrieval is by vector_score descending) comes first.
C11_SortedAndStable ==
    RecommendDone =>
      \A i, k \in 1 .. Len(Val(resp)) :
        i < k =>
          /\ Val(Val(resp)[i].match_score) >= Val(Val(resp)[k].match_score)
          /\ Val(resp)[i].match_score = Val(resp)[k].match_score =>
               Val(Val(resp)[i].match_breakdown).vector_score
                 >= Val(Val(resp)[k].match_breakdown).vector_score

\* C11: within one Recommend response the jobs are ordered by composite
\* non-increasing, jobs with equal composite keep the order of retrieval, and
\* a repeated call over the same data returns the same order: the response
\* is the only one the call can give.
C11_RecommendOrderDeterministic ==
    /\ C11_SortedAndStable
    /\ RecommendDone =>
         \A r \in get_recommended_jobs_for_student(req.student_id, req.limit,
                                                   req.offset) :
           r = Val(resp)

-----------------------------------------------------------------------------
(* Claims comparing the four operations over the same data (Spec) *)

\* what Detail reports for the pair (student sid, job jid)
DetailOf(sid, jid) == Val(get_job_detail(jid, Some(sid)))

\* C12: over the same data, a pair's composite and sub-scores are the same
\* in Recommend (when it returns the job), Browse, Detail and
\* ScoreForApplication: every scored row of Recommend and Browse carries the
\* match_score and match_breakdown Detail reports for the pair, Browse scores
\* a row exactly when Detail scores the pair, and ScoreForApplication
\* returns Detail's composite.
C12_SameScoresAcrossOperations ==
    /\ (req.op \in { "recommend", "browse" } /\ resp # None) =>
         \A i \in 1 .. Len(Val(resp)) :
           LET row == Val(resp)[i]
               sid == CallStudent
           IN  (req.op = "recommend" \/ req.student_id # None) =>
                 /\ row.match_score = DetailOf(sid, row.job_id).match_score
                 /\ row.match_breakdown = DetailOf(sid, row.job_id).match_breakdown
    /\ (req.op = "score" /\ resp # None /\ req.job_id \in DOMAIN jobs) =>
         Val(resp) = DetailOf(req.student_id, req.job_id).match_score

\* Browse scores a job for a student whose experience and preferences both
\* lower the score (under-qualified, prefers remote, the job is on site)
C12_Witness ==
    /\ req.op = "browse" /\ resp # None /\ req.student_id # None
    /\ \E i \in 1 .. Len(Val(resp)) :
         /\ Val(resp)[i].match_breakdown # None
         /\ Val(Val(resp)[i].match_breakdown).experience_score = 5000
         /\ Val(Val(resp)[i].match_breakdown).preference_score = 5667
         /\ Val(resp)[i].match_score =
              DetailOf(Val(req.student_id), Val(resp)[i].job_id).match_score

\* C13: Recommend, Browse, Detail and ScoreForApplication report a match
\* score only for a job whose status is active.
C13_OnlyActiveScored ==
    /\ \A r \in ReportedBreakdowns : jobs[r.job_id].status = "active"
    /\ (req.op = "score" /\ resp # None /\ Val(resp) # None) =>
         jobs[req.job_id].status = "active"

\* C13 for the two list operations: every job Recommend or Browse returns,
\* scored or not, is active.
C13_ListsOnlyActive ==
    (req.op \in { "recommend", "browse" } /\ resp # None) =>
      \A i \in 1 .. Len(Val(resp)) : jobs[Val(resp)[i].job_id].status = "active"

-----------------------------------------------------------------------------
(* Claims about missing embeddings (Spec) *)

\* C14: if the student has no embedding, Recommend returns the empty list,
\* whatever the jobs, the limit and the offset.
C14_NoEmbeddingNoRecommendations ==
    (RecommendDone /\ req.student_id \notin StudentEmbeddingIds) =>
      Val(resp) = << >>

\* Recommend returned for a student without an embedding while an active
\* job with an embedding and no requirements was on offer
C14_Witness ==
    /\ RecommendDone
    /\ req.student_id \notin StudentEmbeddingIds
    /\ Val(resp) = << >>
    /\ \E j \in JobEmbeddingIds :
         /\ jobs[j].status = "active"
         /\ JobDistance(j) = 10000

\* the rows of a Browse or Detail response, each with the student of the call
BrowseDetailRows ==
    IF resp = None THEN {}
    ELSE IF req.op = "browse" THEN { Val(resp)[i] : i \in 1 .. Len(Val(resp)) }
    ELSE IF req.op = "detail" /\ Val(resp) # None THEN { Val(Val(resp)) }
    ELSE {}

\* the pair of the call's student and job jid has both embeddings
BothEmbeddings(jid) ==
    /\ req.student_id # None
    /\ Val(req.student_id) \in StudentEmbeddingIds
    /\ jid \in JobEmbeddingIds

\* C15: in Browse and Detail match_score and match_breakdown are null
\* exactly when the student or the job has no embedding or no student is
\* given; with both embeddings the breakdown is present whatever the
\* similarity.
C15_NullExactlyWithoutEmbedding ==
    \A row \in BrowseDetailRows :
      IF BothEmbeddings(row.job_id)
      THEN row.match_score # None /\ row.match_breakdown # None
      ELSE row.match_score = None /\ row.match_breakdown = None

\* C15 for the pairs whose similarity does not round to 0.0000
C15_NullExactlyWithoutEmbeddingNonZero ==
    \A row \in BrowseDetailRows :
      (BothEmbeddings(row.job_id) => JobDistance(row.job_id) # RawScale) =>
        IF BothEmbeddings(row.job_id)
        THEN row.match_score # None /\ row.match_breakdown # None
        ELSE row.match_score = None /\ row.match_breakdown = None

-----------------------------------------------------------------------------
(* Concurrent apply requests (SpecApply).  apply_to_job runs in its own     *)
(* database session: its SELECTs see what is committed, its INSERT and      *)
(* UPDATE become visible at db.commit().  Here req and resp hold one entry  *)
(* per session.                                                             *)

\* the database sessions serving apply requests
Sessions == { 1, 2 }

\* most rows of the applications table
MaxApplications == 3

InitApply ==
    /\ InitAdminCatalogue
    /\ req = [ c \in Sessions |-> [ op |-> "none" ] ]
    /\ resp = [ c \in Sessions |-> None ]

\* the two SELECTs of apply_to_job (job row, existing application) and the
\* HTTPException they can end with
ApplyBegin ==
    \E c \in Sessions, sid \in StudentIds, job_id \in JobIds \cup { 3 } :
      /\ req[c].op = "none"
      /\ Len(applications) < MaxApplications
      /\ LET code == apply_status(sid, job_id)
         IN  IF code = 200
             THEN /\ req' = [ req EXCEPT ![c] = [ op |-> "apply", student_id |-> sid,
                                                  job_id |-> job_id, pc |-> "insert" ] ]
                  /\ UNCHANGED resp
             ELSE /\ req' = [ req EXCEPT ![c] = [ op |-> "apply", student_id |-> sid,
                                                  job_id |-> job_id, pc |-> "done" ] ]
                  /\ resp' = [ resp EXCEPT ![c] = Some([ status_code |-> code ]) ]
      /\ UNCHANGED db

\* the INSERT without the UPDATE of applications_count
ApplyCommit_without_count ==
    \E c \in Sessions :
      /\ req[c].op = "apply" /\ req[c].pc = "insert"
      /\ LET row == new_application(req[c].student_id, req[c].job_id)
         IN  /\ applications' = Append(applications, row)
             /\ resp' = [ resp EXCEPT ![c] =
                            Some([ status_code |-> 200,
                                   application_id |-> row.application_id,
                                   match_score |-> row.admin_match_score ]) ]
      /\ req' = [ req EXCEPT ![c].pc = "done" ]
      /\ UNCHANGED << application_status_history, courses, course_skills, skills, students, student_skills, student_embeddings,
                      jobs, job_skills, job_embeddings >>

\* the snapshot, the INSERT, the UPDATE of applications_count and the commit
ApplyCommit ==
    \E c \in Sessions :
      /\ req[c].op = "apply" /\ req[c].pc = "insert"
      /\ LET row == new_application(req[c].student_id, req[c].job_id)
         IN  /\ applications' = Append(applications, row)
             /\ jobs' = [ jobs EXCEPT ![req[c].job_id].applications_count = @ + 1 ]
             /\ resp' = [ resp EXCEPT ![c] =
                            Some([ status_code |-> 200,
                                   application_id |-> row.application_id,
                                   match_score |-> row.admin_match_score ]) ]
      /\ req' = [ req EXCEPT ![c].pc = "done" ]
      /\ UNCHANGED << application_status_history, courses, course_skills, skills, students, student_skills, student_embeddings,
                      job_skills, job_embeddings >>

\* the response is delivered; the session serves the next request
ApplyReturn ==
    \E c \in Sessions :
      /\ resp[c] # None
      /\ req' = [ req EXCEPT ![c] = [ op |-> "none" ] ]
      /\ resp' = [ resp EXCEPT ![c] = None ]
      /\ UNCHANGED db

NextApply == ApplyBegin \/ ApplyCommit \/ ApplyReturn

SpecApply == InitApply /\ [][NextApply]_vars

\* the rows of the applications table for the pair (sid, jid)
ApplicationsOf(sid, jid) ==
    { i \in 1 .. Len(applications) :
        applications[i].student_id = sid /\ applications[i].job_id = jid }

\* C16: after any interleaving of apply requests there is at most one
\* application row, and so one admin_match_score snapshot, per
\* (student, job) pair.
C16_OneApplicationPerPair ==
    \A sid \in StudentIds, jid \in JobIds : Cardinality(ApplicationsOf(sid, jid)) <= 1

\* C16 when the apply requests are served one after the other (SpecAdmin)
C16_OneApplicationPerPairSequential ==
    \A sid \in StudentIds, jid \in JobIds : Cardinality(ApplicationsOf(sid, jid)) <= 1

-----------------------------------------------------------------------------
(* Embedding (re)generation under concurrency (SpecEmbed).                  *)
(* generate_student_embedding opens a database session per step, so calls  *)
(* for the same student interleave between the steps; create_job generates *)
(* the embedding of the job it has just inserted inside its own            *)
(* transaction.  req and resp hold one entry per running call.             *)

\* bios a student's profile can hold
Bios == { << >>, << "a" >>, << "b" >> }

\* titles of created jobs
Titles == { << "t" >>, << "u" >> }

\* most rows of the jobs table
MaxCreatedJobs == 1

InitEmbed ==
    /\ skills = SkillIds
    /\ \E b \in Bios, e \in { 0, 1 } :
         students = [ s \in StudentIds |->
                        [ PlainStudent EXCEPT !.bio = b, !.experience_years = e ] ]
    /\ student_skills = {}
    /\ student_embeddings = {}
    /\ jobs = << >>
    /\ job_skills = {}
    /\ job_embeddings = {}
    /\ applications = << >>
    /\ application_status_history = << >>
    /\ courses = << >>
    /\ course_skills = {}
    /\ req = [ c \in Sessions |-> [ op |-> "none" ] ]
    /\ resp = [ c \in Sessions |-> None ]

\* the student edits the bio of the profile
UpdateProfile ==
    \E sid \in StudentIds, b \in Bios :
      /\ students[sid].bio # b
      /\ students' = [ students EXCEPT ![sid].bio = b ]
      /\ UNCHANGED << application_status_history, courses, course_skills, skills, student_skills, student_embeddings, jobs, job_skills,
                      job_embeddings, applications, req, resp >>

\* steps 1-4 of generate_student_embedding up to current_hash: read the
\* profile, build the text, return None when it is empty
GenBuildText ==
    \E c \in Sessions, sid \in StudentIds :
      /\ req[c].op = "none"
      /\ LET embed_text == build_student_text(students[sid].bio,
                                              students[sid].experience_years)
         IN  IF embed_text = << >>
             THEN /\ req' = [ req EXCEPT ![c] =
                       [ op |-> "generate_student_embedding", student_id |-> sid,
                         pc |-> "done" ] ]
                  /\ resp' = [ resp EXCEPT ![c] = Some([ status |-> "no_text" ]) ]
             ELSE /\ req' = [ req EXCEPT ![c] =
                       [ op |-> "generate_student_embedding", student_id |-> sid,
                         embed_text |-> embed_text,
                         current_hash |-> text_hash(embed_text),
                         pc |-> "check" ] ]
                  /\ UNCHANGED resp
      /\ UNCHANGED db

\* step 4 without the comparison of the hashes: every call goes on to the
\* embedding API
GenCheckHash_always_generate ==
    \E c \in Sessions :
      /\ req[c].op = "generate_student_embedding" /\ req[c].pc = "check"
      /\ req' = [ req EXCEPT ![c].pc = "generate" ]
      /\ UNCHANGED << db, resp >>

\* step 4: an existing row with the same hash ends the call ("unchanged")
GenCheckHash ==
    \E c \in Sessions :
      /\ req[c].op = "generate_student_embedding" /\ req[c].pc = "check"
      /\ IF \E r \in student_embeddings :
               /\ r.student_id = req[c].student_id
               /\ r.source_text_hash = Some(req[c].current_hash)
         THEN /\ req' = [ req EXCEPT ![c].pc = "done" ]
              /\ resp' = [ resp EXCEPT ![c] =
                             Some([ status |-> "unchanged",
                                    source_text_hash |-> req[c].current_hash ]) ]
         ELSE /\ req' = [ req EXCEPT ![c].pc = "generate" ]
              /\ UNCHANGED resp
      /\ UNCHANGED db

\* step 5: the call of the embedding API, which answers with the vector or
\* fails (resp.raise_for_status())
GenEmbed ==
    \E c \in Sessions, ok \in BOOLEAN :
      /\ req[c].op = "generate_student_embedding" /\ req[c].pc = "generate"
      /\ IF ok
         THEN /\ req' = [ req EXCEPT ![c] =
                   [ op |-> "generate_student_embedding",
                     student_id |-> req[c].student_id,
                     embed_text |-> req[c].embed_text,
                     current_hash |-> req[c].current_hash,
                     vector |-> generate_embedding(req[c].embed_text),
                     pc |-> "select" ] ]
              /\ UNCHANGED resp
         ELSE /\ req' = [ req EXCEPT ![c].pc = "done" ]
              /\ resp' = [ resp EXCEPT ![c] = Some([ status |-> "raised" ]) ]
      /\ UNCHANGED db

\* step 6, the SELECT of the upsert: is there a row for the student
GenSelect ==
    \E c \in Sessions :
      /\ req[c].op = "generate_student_embedding" /\ req[c].pc = "select"
      /\ req' = [ req EXCEPT ![c] =
             [ op |-> "generate_student_embedding",
               student_id |-> req[c].student_id,
               embed_text |-> req[c].embed_text,
               current_hash |-> req[c].current_hash,
               vector |-> req[c].vector,
               row |-> (\E r \in student_embeddings : r.student_id = req[c].student_id),
               pc |-> "commit" ] ]
      /\ UNCHANGED << db, resp >>

\* step 6, the write and the commit: UPDATE of the row found, or INSERT of
\* a new row, which the unique constraint refuses when another call has
\* inserted one in between
GenCommit ==
    \E c \in Sessions :
      /\ req[c].op = "generate_student_embedding" /\ req[c].pc = "commit"
      /\ LET sid == req[c].student_id
             new == [ student_id |-> sid,
                      source_text_hash |-> Some(req[c].current_hash),
                      embedding |-> req[c].vector ]
         IN  IF req[c].row
             THEN /\ student_embeddings' =
                       { IF r.student_id = sid THEN new ELSE r : r \in student_embeddings }
                  /\ resp' = [ resp EXCEPT ![c] =
                                 Some([ status |-> "generated",
                                        source_text_hash |-> req[c].current_hash ]) ]
             ELSE IF unique_violation(sid)
             THEN /\ UNCHANGED student_embeddings
                  /\ resp' = [ resp EXCEPT ![c] = Some([ status |-> "raised" ]) ]
             ELSE /\ student_embeddings' = student_embeddings \cup { new }
                  /\ resp' = [ resp EXCEPT ![c] =
                                 Some([ status |-> "generated",
                                        source_text_hash |-> req[c].current_hash ]) ]
      /\ req' = [ req EXCEPT ![c].pc = "done" ]
      /\ UNCHANGED << application_status_history, courses, course_skills, skills, students, student_skills, jobs, job_skills,
                      job_embeddings, applications >>

\* create_job: the job row, then _generate_job_embedding for the new job_id
\* in the same transaction; a failure of the embedding API is caught and
\* leaves the job without an embedding
CreateJob ==
    \E c \in Sessions, title \in Titles, employment_type \in { "full_time" },
       status \in { "active" }, ok \in BOOLEAN :
      /\ req[c].op = "none"
      /\ Len(jobs) < MaxCreatedJobs
      /\ LET job_id == Len(jobs) + 1
             embed_text == build_job_text(title, employment_type)
             current_hash == text_hash(embed_text)
             existing_row == \E r \in job_embeddings : r.job_id = job_id
             same == \E r \in job_embeddings :
                        r.job_id = job_id /\ r.source_text_hash = Some(current_hash)
             emb == [ job_id |-> job_id, source_text_hash |-> Some(current_hash),
                      embedding |-> generate_embedding(embed_text) ]
             embedding_status ==
                 IF embed_text = << >> THEN "skipped_empty"
                 ELSE IF same THEN "unchanged"
                 ELSE IF ~ok THEN "error"
                 ELSE "generated"
         IN  /\ jobs' = Append(jobs, [ PlainJob(job_id) EXCEPT !.title = title,
                                         !.employment_type = employment_type,
                                         !.status = status ])
             /\ job_embeddings' =
                  IF embedding_status # "generated" THEN job_embeddings
                  ELSE IF existing_row
                  THEN { IF r.job_id = job_id THEN emb ELSE r : r \in job_embeddings }
                  ELSE job_embeddings \cup { emb }
             /\ req' = [ req EXCEPT ![c] = [ op |-> "create_job", job_id |-> job_id,
                                             pc |-> "done" ] ]
             /\ resp' = [ resp EXCEPT ![c] =
                            Some([ job_id |-> job_id,
                                   embedding_status |-> embedding_status ]) ]
      /\ UNCHANGED << application_status_history, courses, course_skills, skills, students, student_skills, student_embeddings,
                      job_skills, applications >>

\* the call has returned; the worker takes the next one
EmbedReturn ==
    \E c \in Sessions :
      /\ resp[c] # None
      /\ req' = [ req EXCEPT ![c] = [ op |-> "none" ] ]
      /\ resp' = [ resp EXCEPT ![c] = None ]
      /\ UNCHANGED db

NextEmbed ==
    \/ UpdateProfile \/ GenBuildText \/ GenCheckHash \/ GenEmbed \/ GenSelect
    \/ GenCommit \/ CreateJob \/ EmbedReturn

SpecEmbed == InitEmbed /\ [][NextEmbed]_vars

\* the texts a student's / a job's embedding can be generated from
StudentTexts == { build_student_text(b, e) : b \in Bios, e \in { 0, 1 } }

JobTexts == { build_job_text(t, e) : t \in Titles, e \in EmploymentTypes }

\* the row holds the vector of some text together with that text's hash
RowIsOfOneText(r, texts) ==
    \E t \in texts :
      /\ r.embedding = generate_embedding(t)
      /\ r.source_text_hash = Some(text_hash(t))

-----------------------------------------------------------------------------
(* Claims about what the operations write *)

\* C18: Recommend, Browse, Detail and ScoreForApplication leave every
\* table (students, jobs, skills, requirements, embeddings, applications)
\* unchanged: no step of Spec changes the stored data.
C18_ScoringWritesNothing == [][db' = db]_vars

\* each of the four operations has returned a score over data that is still
\* the stored data: here ScoreForApplication
C18_Witness ==
    /\ req.op = "score" /\ resp # None /\ Val(resp) # None
    /\ applications = << >>
    /\ \A j \in DOMAIN jobs : jobs[j].applications_count = 0

\* C18, the write of the matching flow (SpecAdmin): the stored data changes
\* only in a successful apply, which appends one application row carrying
\* the admin_match_score snapshot and counts it in the job's
\* applications_count; the applicant list writes nothing.
C18_OnlyApplyWrites ==
    [][ db' # db =>
          /\ req'.op = "apply" /\ Val(resp').status_code = 200
          /\ Len(applications') = Len(applications) + 1
          /\ SubSeq(applications', 1, Len(applications)) = applications
          /\ applications'[Len(applications')].admin_match_score =
               admin_match_score_of(
                 compute_composite_for_application(req'.student_id, req'.job_id))
          /\ jobs' = [ jobs EXCEPT ![req'.job_id].applications_count = @ + 1 ]
          /\ UNCHANGED << application_status_history, courses, course_skills, skills, students, student_skills, student_embeddings,
                          job_skills, job_embeddings >> ]_vars

-----------------------------------------------------------------------------
(* The gap-course recommender on its own (SpecGap) *)

\* course ids of the model: courses 1 and 2 vary, the courses above 2 are
\* published and teach skill 1
MaxCourses == 11

\* what a course may be tagged with of one skill: nothing, or a row with
\* is_primary
CourseSkillChoices == { None, Some(TRUE), Some(FALSE) }

CourseSkillRowsOf(cid, g) ==
    { [ course_id |-> cid, skill_id |-> k, is_primary |-> Val(g[k]) ] :
        k \in { x \in DOMAIN g : g[x] # None } }

\* missing-skill lists: empty, one name, two names, a repeated name, a name
\* of no skill (4)
MissingSkillLists == { << >>, << 1 >>, << 1, 2 >>, << 3, 3 >>, << 2, 4 >> }

InitGap ==
    /\ skills \in { SkillIds, SkillIds \ { 2 } }
    /\ students = << >>
    /\ student_skills = {}
    /\ student_embeddings = {}
    /\ jobs = << >>
    /\ job_skills = {}
    /\ job_embeddings = {}
    /\ applications = << >>
    /\ application_status_history = << >>
    /\ \E n \in { 2, MaxCourses }, p1, p2 \in BOOLEAN :
         courses = [ c \in 1 .. n |->
                       [ is_published |-> IF c = 1 THEN p1 ELSE IF c = 2 THEN p2 ELSE TRUE ] ]
    /\ \E g1, g2 \in [ SkillIds -> CourseSkillChoices ] :
         course_skills =
           CourseSkillRowsOf(1, g1) \cup CourseSkillRowsOf(2, g2)
             \cup { [ course_id |-> c, skill_id |-> 1, is_primary |-> TRUE ] :
                      c \in { x \in DOMAIN courses : x > 2 } }
    /\ req \in [ op : { "gap_courses" }, missing_skill_names : MissingSkillLists ]
    /\ resp = None

GapCourses ==
    /\ req.op = "gap_courses"
    /\ resp = None
    /\ resp' = Some(_get_gap_courses(req.missing_skill_names))
    /\ UNCHANGED << db, req >>

NextGap == GapCourses

SpecGap == InitGap /\ [][NextGap]_vars

GapDone == req.op = "gap_courses" /\ resp # None

\* the queried names
QueriedSkills == { req.missing_skill_names[i] : i \in 1 .. Len(req.missing_skill_names) }

\* the queried skills course cid is tagged with
TaggedQueried(cid) ==
    { cs.skill_id : cs \in { r \in course_skills :
        r.course_id = cid /\ r.skill_id \in skills /\ r.skill_id \in QueriedSkills } }

\* C19: the gap-course recommender returns at most 10 courses, no course
\* twice, each published and tagged with at least one queried skill, each
\* annotated with exactly the queried skills it is tagged with; an empty
\* list of missing skills gives an empty result.
C19_GapCourses ==
    GapDone =>
      LET got == Val(resp)
      IN  /\ Len(got) <= 10
          /\ \A i, k \in 1 .. Len(got) : i # k => got[i].course_id # got[k].course_id
          /\ \A i \in 1 .. Len(got) :
               /\ got[i].course_id \in DOMAIN courses
               /\ courses[got[i].course_id].is_published
               /\ TaggedQueried(got[i].course_id) # {}
               /\ got[i].teaches_skills = TaggedQueried(got[i].course_id)
          /\ req.missing_skill_names = << >> => got = << >>

\* more than 10 courses qualify, 10 are returned, and one of them closes
\* two gaps while it is also tagged with a skill that was not asked for
C19_Witness ==
    /\ GapDone
    /\ Len(Val(resp)) = 10
    /\ Cardinality({ c \in DOMAIN courses :
                       courses[c].is_published /\ TaggedQueried(c) # {} }) > 10
    /\ \E i \in 1 .. Len(Val(resp)) :
         /\ Val(resp)[i].teaches_skills = { 1, 2 }
         /\ \E r \in course_skills :
              r.course_id = Val(resp)[i].course_id /\ r.skill_id = 3

-----------------------------------------------------------------------------
(* Skill overlap over requirements whose skill is gone (SpecDeleted): skill *)
(* 3 has no row in the skills table; job 1 has any requirements, job 2     *)
(* requires the missing skill alone or next to skill 1.                    *)

\* the skill without a row in skills
DeletedSkill == 3

InitDeleted ==
    /\ skills = SkillIds \ { DeletedSkill }
    /\ students = [ s \in StudentIds |-> PlainStudent ]
    /\ \E f \in [ SkillIds -> StudentSkillChoices ] :
           student_skills = StudentSkillRows(1, f)
    /\ student_embeddings = {}
    /\ jobs = [ j \in JobIds |-> PlainJob(j) ]
    /\ \E g \in [ SkillIds -> JobSkillChoices ], with1 \in BOOLEAN :
           job_skills =
             JobSkillRowsOf(1, g)
               \cup { [ job_id |-> 2, skill_id |-> DeletedSkill, is_mandatory |-> TRUE,
                        min_experience_years |-> None ] }
               \cup (IF with1
                     THEN { [ job_id |-> 2, skill_id |-> 1, is_mandatory |-> FALSE,
                              min_experience_years |-> None ] }
                     ELSE {})
    /\ job_embeddings = {}
    /\ applications = << >>
    /\ application_status_history = << >>
    /\ courses = << >>
    /\ course_skills = {}
    /\ req \in [ op : { "skill_overlap" }, student_id : StudentIds,
                 job_ids : { << 1 >>, << 2, 1 >> } ]
    /\ resp = None

SpecDeleted == InitDeleted /\ [][NextSkill]_vars

\* the requirements of job jid whose skill exists
LiveReqs(jid) == { r \in job_skills : r.job_id = jid /\ r.skill_id \in skills }

\* the student holds the skill of requirement r
LiveHeld(sid, r) ==
    \E ss \in student_skills : ss.student_id = sid /\ ss.skill_id = r.skill_id

\* the score of job jid computed over LiveReqs(jid) alone (null when there
\* is none)
LiveScore(sid, jid) ==
    LET R  == LiveReqs(jid)
        mt == Cardinality({ r \in R : r.is_mandatory })
        ot == Cardinality({ r \in R : ~r.is_mandatory })
        mm == Cardinality({ r \in R : r.is_mandatory /\ LiveHeld(sid, r) })
        om == Cardinality({ r \in R : ~r.is_mandatory /\ LiveHeld(sid, r) })
        b  == Cardinality({ r \in R :
                \E ss \in student_skills :
                  /\ ss.student_id = sid /\ ss.skill_id = r.skill_id
                  /\ ss.proficiency_level >= 4
                  /\ ss.years_of_experience >=
                       (IF r.min_experience_years = None THEN 0
                        ELSE Val(r.min_experience_years)) })
        o1 == IF ot >= 1 THEN ot ELSE 1
        f  == IF mt > 0
              THEN Frac(70 * mm * o1 + 30 * om * mt + 5 * b * mt * o1, 100 * mt * o1)
              ELSE Frac(100 * (mm + om) + 5 * b * (mt + ot), 100 * (mt + ot))
    IN  IF R = {} THEN None
        ELSE Some(Round4(IF f.n >= f.d THEN Frac(1, 1) ELSE f))

\* C20: a requirement whose skill has no row in skills is skipped: it is in
\* neither matched_skills nor missing_skills nor any total, and every job of
\* the batch is scored over its remaining requirements as if the row did not
\* exist (a job left with none has skill_score null).
C20_DeletedSkillSkipped ==
    SkillDone =>
      /\ DOMAIN Val(resp) = { req.job_ids[i] : i \in 1 .. Len(req.job_ids) }
      /\ \A jid \in DOMAIN Val(resp) :
           LET res == Val(resp)[jid]
               R   == LiveReqs(jid)
           IN  /\ { res.matched_skills[i].skill_name : i \in 1 .. Len(res.matched_skills) }
                    = { r.skill_id : r \in { x \in R : LiveHeld(req.student_id, x) } }
               /\ { res.missing_skills[i].skill_name : i \in 1 .. Len(res.missing_skills) }
                    = { r.skill_id : r \in { x \in R : ~LiveHeld(req.student_id, x) } }
               /\ Len(res.matched_skills) + Len(res.missing_skills) = Cardinality(R)
               /\ res.total_skills = Cardinality(R)
               /\ res.mandatory_total = Cardinality({ r \in R : r.is_mandatory })
               /\ res.optional_total = Cardinality({ r \in R : ~r.is_mandatory })
               /\ res.mandatory_matched =
                    Cardinality({ r \in R : r.is_mandatory /\ LiveHeld(req.student_id, r) })
               /\ res.optional_matched =
                    Cardinality({ r \in R : ~r.is_mandatory /\ LiveHeld(req.student_id, r) })
               /\ res.skill_score = LiveScore(req.student_id, jid)

\* a batch of both jobs: job 1 requires the missing skill as mandatory next
\* to a mandatory skill the student holds and is scored 0.7 over that one;
\* job 2 requires the missing skill alone and gets the null score
C20_Witness ==
    /\ SkillDone
    /\ req.job_ids = << 2, 1 >>
    /\ \E r \in job_skills :
         r.job_id = 1 /\ r.skill_id = DeletedSkill /\ r.is_mandatory
    /\ \E ss \in student_skills : ss.skill_id = DeletedSkill
    /\ Val(resp)[1].mandatory_total = 1
    /\ Val(resp)[1].mandatory_matched = 1
    /\ Val(resp)[1].optional_total = 0
    /\ Val(resp)[1].skill_score = Some((7 * Scale) \div 10)
    /\ Val(resp)[2].skill_score = None

-----------------------------------------------------------------------------
(* Calls naming an id without a row (Spec).  get_job_detail returns None   *)
(* for "no such job", which its endpoint turns into the 404;               *)
(* compute_composite_for_application returns a value (a score or None) or  *)
(* raises.                                                                 *)

\* the call names a job or a student that has no row
UnknownIdentity ==
    \/ req.job_id \notin DOMAIN jobs
    \/ /\ req.op = "detail"
       /\ req.student_id # None
       /\ Val(req.student_id) \notin DOMAIN students
    \/ /\ req.op = "score"
       /\ req.student_id \notin DOMAIN students

C21_UnknownIdentityNoScore ==
    (req.op \in { "detail", "score" } /\ resp # None /\ UnknownIdentity) =>
      /\ (req.op = "detail" /\ req.job_id \notin DOMAIN jobs) => Val(resp) = None
      /\ (req.op = "detail" /\ req.job_id \in DOMAIN jobs) =>
           Val(Val(resp)).match_score = None
      /\ req.op = "score" => Val(resp) = None

-----------------------------------------------------------------------------
(* The same Detail call made twice over unchanged data (SpecDetailTwice):  *)
(* the caller keeps the first response and calls again.                    *)

\* a first Detail call that also rewrites the student's row
DetailFirst_touching_student ==
    \E job_id \in JobIds \cup { 3 },
       student_id \in { None } \cup { Some(x) : x \in StudentIds \cup { 2 } } :
      /\ Idle
      /\ req' = [ op |-> "detail", job_id |-> job_id, student_id |-> student_id,
                  earlier |-> << >> ]
      /\ resp' = Some(get_job_detail(job_id, student_id))
      /\ students' = [ s \in DOMAIN students |->
                         [ students[s] EXCEPT !.experience_years = @ + 1 ] ]
      /\ UNCHANGED << application_status_history, courses, course_skills, skills, student_skills, student_embeddings,
                      jobs, job_skills, job_embeddings, applications >>

DetailFirst ==
    \E job_id \in JobIds \cup { 3 },
       student_id \in { None } \cup { Some(x) : x \in StudentIds \cup { 2 } } :
      /\ Idle
      /\ req' = [ op |-> "detail", job_id |-> job_id, student_id |-> student_id,
                  earlier |-> << >> ]
      /\ resp' = Some(get_job_detail(job_id, student_id))
      /\ UNCHANGED db

\* the caller has the first response and makes the same call again
DetailAgain ==
    /\ req.op = "detail"
    /\ resp # None
    /\ req.earlier = << >>
    /\ req' = [ req EXCEPT !.earlier = << Val(resp) >> ]
    /\ resp' = Some(get_job_detail(req.job_id, req.student_id))
    /\ UNCHANGED db

NextDetailTwice == DetailFirst \/ DetailAgain \/ Return

SpecDetailTwice == Init /\ [][NextDetailTwice]_vars

\* both responses are in
DetailTwiceDone == req.op = "detail" /\ resp # None /\ req.earlier # << >>

-----------------------------------------------------------------------------
(* Pagination of Recommend (Spec).  Every page is its own call: the        *)
(* retrieval query is run and the list is filtered and sorted again.       *)

\* the full accepted lists a call for student sid can build (no job is cut
\* off: the catalogue is smaller than the default page)
FullAcceptedLists(sid) == get_recommended_jobs_for_student(sid, DefaultLimit, 0)

\* the job ids of a response
JobIdsOf(rows) == { rows[i].job_id : i \in 1 .. Len(rows) }

\* C23: Recommend(limit, offset) is the slice [offset, offset + limit) of
\* the full accepted list, so that the page at the next offset (another
\* call) shares no job with it and the two pages together are that part of
\* the full list, and an offset beyond the end gives the empty list.
C23_PagesOfTheFullList ==
    RecommendDone =>
      /\ \A full \in FullAcceptedLists(req.student_id) :
           Val(resp) = Slice(full, req.offset, req.limit)
      /\ \A next_page \in get_recommended_jobs_for_student(
                            req.student_id, req.limit, req.offset + req.limit) :
           /\ JobIdsOf(Val(resp)) \cap JobIdsOf(next_page) = {}
           /\ \A full \in FullAcceptedLists(req.student_id) :
                Val(resp) \o next_page = Slice(full, req.offset, 2 * req.limit)

\* what holds of one call: the response is the slice [offset, offset+limit)
\* of a full accepted list the call can build, in its order, and is empty
\* when the offset is beyond its end
C23_SliceOfAFullList ==
    RecommendDone =>
      \E full \in FullAcceptedLists(req.student_id) :
        /\ Val(resp) = Slice(full, req.offset, req.limit)
        /\ req.offset >= Len(full) => Val(resp) = << >>

-----------------------------------------------------------------------------
(* The partition of a job's requirements by the skill overlap (SpecSkill) *)

\* the skill ids student sid has a row for
HeldSkillIds(sid) == { ss.skill_id : ss \in { x \in student_skills : x.student_id = sid } }

\* the (skill, is_mandatory) pairs of a list of matched or missing entries
EntryPairs(entries) ==
    { << entries[i].skill_name, entries[i].is_mandatory >> : i \in 1 .. Len(entries) }

\* C24: in every job's skill-overlap result each requirement is in exactly
\* one of matched_skills and missing_skills, matched iff the student holds
\* its skill id; mandatory_matched <= mandatory_total, optional_matched <=
\* optional_total, and mandatory_total + optional_total = total_skills =
\* |matched_skills| + |missing_skills|.
C24_RequirementsPartitioned ==
    SkillDone =>
      \A jid \in DOMAIN Val(resp) :
        LET res  == Val(resp)[jid]
            reqs == { r \in job_skills : r.job_id = jid }
            held == { r \in reqs : r.skill_id \in HeldSkillIds(req.student_id) }
        IN  /\ EntryPairs(res.matched_skills) =
                 { << r.skill_id, r.is_mandatory >> : r \in held }
            /\ EntryPairs(res.missing_skills) =
                 { << r.skill_id, r.is_mandatory >> : r \in reqs \ held }
            /\ Len(res.matched_skills) = Cardinality(held)
            /\ Len(res.missing_skills) = Cardinality(reqs \ held)
            /\ res.mandatory_matched <= res.mandatory_total
            /\ res.optional_matched <= res.optional_total
            /\ res.mandatory_matched + res.optional_matched = Len(res.matched_skills)
            /\ res.mandatory_total + res.optional_total = res.total_skills
            /\ res.total_skills = Len(res.matched_skills) + Len(res.missing_skills)
            /\ res.total_skills = Cardinality(reqs)

\* job 1 has three requirements: a mandatory one the student holds, and a
\* mandatory and an optional one the student does not hold
C24_Witness ==
    /\ SkillDone
    /\ Val(resp)[1].total_skills = 3
    /\ Val(resp)[1].mandatory_total = 2
    /\ Val(resp)[1].mandatory_matched = 1
    /\ Val(resp)[1].optional_matched = 0
    /\ Len(Val(resp)[1].matched_skills) = 1
    /\ Len(Val(resp)[1].missing_skills) = 2

-----------------------------------------------------------------------------
(* The calls of _compute_skill_overlap that one Recommend or Browse        *)
(* request makes (SpecCalls): each call is recorded with the list of job   *)
(* ids passed and the dict returned.                                       *)

\* one call of _compute_skill_overlap and what it returned
skill_overlap_call(student_id, job_ids) ==
    [ job_ids |-> job_ids, results |-> _compute_skill_overlap(student_id, job_ids) ]

\* one call per candidate instead of one per request
recommend_skill_calls_per_candidate(sid) ==
    LET cand == { j \in DOMAIN jobs : IsCandidate(j) }
        vs == [ j \in cand |-> RetrievedVectorScore(j) ]
    IN  { [ i \in 1 .. Len(q) |-> skill_overlap_call(sid, << q[i] >>) ] :
            q \in OrdersDesc(cand, vs) }

\* the possible call lists of get_recommended_jobs_for_student: the three
\* early returns come before the call; otherwise the ids of all candidates
\* are passed in one call
recommend_skill_calls(sid) ==
    IF ~student_has_embedding(sid) THEN { << >> }
    ELSE IF sid \notin DOMAIN students THEN { << >> }
    ELSE LET cand == { j \in DOMAIN jobs : IsCandidate(j) }
             vs == [ j \in cand |-> RetrievedVectorScore(j) ]
         IN  IF cand = {} THEN { << >> }
             ELSE { << skill_overlap_call(sid, q) >> : q \in OrdersDesc(cand, vs) }

\* the possible call lists of get_all_active_jobs:
\* `if student_id and all_job_ids:` one call with the ids of the page
browse_skill_calls(student_id, employment_type, remote_type, location, limit, offset) ==
    LET hit == { j \in DOMAIN jobs :
                   BrowseMatches(j, employment_type, remote_type, location) }
        posted == [ j \in hit |-> jobs[j].posted_at ]
    IN  { LET rows == Slice(q, offset, limit)
          IN  IF student_id # None /\ rows # << >>
              THEN << skill_overlap_call(Val(student_id), rows) >>
              ELSE << >> :
            q \in OrdersDesc(hit, posted) }

RecommendCalls ==
    \E sid \in StudentIds, limit \in { 1, DefaultLimit }, offset \in { 0, 1 } :
      /\ Idle
      /\ req' = [ op |-> "recommend", student_id |-> sid, limit |-> limit,
                  offset |-> offset ]
      /\ \E calls \in recommend_skill_calls(sid) : resp' = Some(calls)
      /\ UNCHANGED db

BrowseCalls ==
    \E student_id \in { None } \cup { Some(x) : x \in StudentIds },
       remote_type \in { "", "remote" },
       page \in { << DefaultLimit, 0 >>, << 1, 1 >> } :
      /\ Idle
      /\ req' = [ op |-> "browse", student_id |-> student_id,
                  employment_type |-> "", remote_type |-> remote_type,
                  location |-> << >>, limit |-> page[1], offset |-> page[2] ]
      /\ \E calls \in browse_skill_calls(student_id, "", remote_type, << >>,
                                         page[1], page[2]) :
           resp' = Some(calls)
      /\ UNCHANGED db

NextCalls == RecommendCalls \/ BrowseCalls \/ Return

SpecCalls == Init /\ [][NextCalls]_vars

\* the request's calls are recorded
CallsDone == req.op \in { "recommend", "browse" } /\ resp # None

\* every recorded call returned a dict with exactly one entry per id passed,
\* and no id was passed twice
OneEntryPerRequestedJob ==
    \A i \in 1 .. Len(Val(resp)) :
      LET call == Val(resp)[i]
      IN  /\ DOMAIN call.results = { call.job_ids[k] : k \in 1 .. Len(call.job_ids) }
          /\ Cardinality(DOMAIN call.results) = Len(call.job_ids)

\* the jobs a request has to score: the retrieved candidates of Recommend
\* (none without the student's embedding), the page of Browse (none for an
\* anonymous caller)
JobsToScore ==
    IF req.op = "recommend"
    THEN IF req.student_id \in StudentEmbeddingIds
         THEN { j \in DOMAIN jobs : IsCandidate(j) } ELSE {}
    ELSE IF req.student_id = None THEN {}
         ELSE LET hit == { j \in DOMAIN jobs : jobs[j].status = "active"
                             /\ (req.remote_type # "" =>
                                   jobs[j].remote_type = req.remote_type) }
              IN  IF req.offset >= Cardinality(hit) THEN {} ELSE hit

\* C25 as stated: a skill-overlap call returns exactly one entry per
\* requested job id, and every Recommend and Browse request makes exactly
\* one skill-overlap call.
C25_ExactlyOneCallPerRequest ==
    CallsDone =>
      /\ OneEntryPerRequestedJob
      /\ Len(Val(resp)) = 1

\* C25, amended: a skill-overlap call returns exactly one entry per
\* requested job id (jobs without requirements included); a Recommend or
\* Browse request makes at most one skill-overlap call, and makes it exactly
\* when it has a job to score; the call names only jobs to score.
C25_AtMostOneCallPerRequest ==
    CallsDone =>
      /\ OneEntryPerRequestedJob
      /\ Len(Val(resp)) <= 1
      /\ (Len(Val(resp)) = 1) = (JobsToScore # {})
      /\ \A i \in 1 .. Len(Val(resp)) :
           DOMAIN Val(resp)[i].results \subseteq JobsToScore

\* a Recommend request with two candidates made one call naming both, and
\* got an entry for each, one of them of a job without requirements
C25_Witness ==
    /\ CallsDone
    /\ req.op = "recommend"
    /\ Len(Val(resp)) = 1
    /\ DOMAIN Val(resp)[1].results = { 1, 2 }
    /\ Val(resp)[1].results[1].skill_score # None
    /\ Val(resp)[1].results[2] = no_requirements_result

-----------------------------------------------------------------------------
(* Regeneration over unchanged content (SpecEmbed).  A call asks the       *)
(* embedding API in GenEmbed (students) or inside CreateJob (jobs, where   *)
(* it answers "generated" or "error"); what is stored is compared when the *)
(* call makes its check.                                                   *)

\* the student's row holds the hash h
StoredStudentHash(sid, h) ==
    \E r \in student_embeddings : r.student_id = sid /\ r.source_text_hash = Some(h)

\* in this step call c of generate_student_embedding ends without asking the
\* embedding API: at the empty-text return or at the hash check
EndsWithoutProvider(c) ==
    /\ req'[c].op = "generate_student_embedding"
    /\ req'[c].pc = "done"
    /\ \/ req[c].op = "none"
       \/ req[c].op = "generate_student_embedding" /\ req[c].pc = "check"

\* in this step call c passes the hash check and goes on to the embedding API
GoesToProvider(c) ==
    /\ req[c].op = "generate_student_embedding" /\ req[c].pc = "check"
    /\ req'[c].pc = "generate"

\* the hash of the text call c has built, in a step that ends the call
\* without the embedding API (the empty text when the call ends before its
\* check)
FreshHash(c) ==
    IF req[c].op = "none" THEN text_hash(<< >>) ELSE req[c].current_hash

\* in this step call c of create_job has run _generate_job_embedding
CreatesJob(c) == req[c].op = "none" /\ req'[c].op = "create_job"

\* the hash of the text of the job call c has created
CreatedJobHash(c) ==
    text_hash(build_job_text(jobs'[req'[c].job_id].title,
                             jobs'[req'[c].job_id].employment_type))

\* the job's row held that hash before the step
StoredJobHash(c) ==
    \E r \in job_embeddings :
      r.job_id = req'[c].job_id /\ r.source_text_hash = Some(CreatedJobHash(c))

-----------------------------------------------------------------------------
(* applications_count against the applications created (SpecApply; every   *)
(* job starts with applications_count = 0 and no application)              *)

\* the number of application rows of job jid in the table apps
ApplicationsCreated(apps, jid) ==
    Cardinality({ i \in 1 .. Len(apps) : apps[i].job_id = jid })

\* C29: after any sequence of apply requests each job's applications_count
\* has grown by exactly the number of applications created for it: an apply
\* answered 200 has added one application row for its job and one to that
\* job's count, and an apply answered 404, 400 or 409 has changed nothing.
C29_CountIsApplicationsCreated ==
    [][ /\ \A jid \in DOMAIN jobs' :
             jobs'[jid].applications_count = ApplicationsCreated(applications', jid)
        /\ \A c \in Sessions :
             (resp[c] = None /\ resp'[c] # None) =>
               IF Val(resp'[c]).status_code = 200
               THEN /\ Len(applications') = Len(applications) + 1
                    /\ SubSeq(applications', 1, Len(applications)) = applications
                    /\ applications'[Len(applications')].job_id = req'[c].job_id
                    /\ applications'[Len(applications')].student_id = req'[c].student_id
                    /\ jobs' = [ jobs EXCEPT ![req'[c].job_id].applications_count = @ + 1 ]
               ELSE /\ Val(resp'[c]).status_code \in { 404, 400, 409 }
                    /\ db' = db ]_vars

\* an apply has been refused as a duplicate after an apply for the same job
\* was counted
C29_Witness ==
    \E c \in Sessions :
      /\ req[c].op = "apply" /\ resp[c] # None
      /\ Val(resp[c]).status_code = 409
      /\ jobs[req[c].job_id].applications_count = 1
      /\ Len(applications) = 1

-----------------------------------------------------------------------------
(* The experience fit of a job with a minimum and no maximum (SpecExp) *)

\* C30: with a minimum and no maximum the upper bound is min + 10: a
\* student with min <= experience <= min + 10 scores 1.0, and a student
\* above min + 10 scores max(0.5, 1 - (experience - (min + 10)) / 10).
C30_OpenRangeUsesMinPlusTen ==
    (ExpDone /\ req.job_exp_min # None /\ req.job_exp_max = None) =>
      LET e     == Val(resp)
          st    == req.student_exp
          mn    == Val(req.job_exp_min)
          upper == mn + 10
      IN  /\ (mn <= st /\ st <= upper) => e.n = e.d
          /\ st > upper => 10 * e.n = Max(5, 10 - (st - upper)) * e.d

\* a student 6 years above min + 10 of a job that states the minimum 0 only:
\* 1 - 6/10 is below the floor, the score is 0.5
C30_Witness ==
    /\ ExpDone
    /\ req.job_exp_min = Some(0)
    /\ req.job_exp_max = None
    /\ req.student_exp = 16
    /\ 2 * Val(resp).n = Val(resp).d

-----------------------------------------------------------------------------
(* The review of applications (SpecReview): apply_to_job, the admin's      *)
(* bulk_approve_applications and update_application_status                 *)
(* (api/v1/endpoints/admin.py) and the company's update_candidate_stage    *)
(* (api/v1/endpoints/jobs.py).  One company owns every job; job 1 is the   *)
(* one job accepting applications; timestamps are "now"; admin ids, notes  *)
(* and notifications are not modelled.                                     *)

\* most rows of the application_status_history table
MaxHistory == 2

\* valid_statuses of update_application_status
AdminStatuses ==
    { "pending_admin_review", "admin_shortlisted", "rejected_by_admin",
      "forwarded_to_company" }

\* valid_stages of update_candidate_stage
CompanyStages ==
    { "new_candidates", "under_review", "interviewing", "offer_extended", "hired",
      "rejected" }

\* stage_to_status.get(new_stage): the application status of a stage, None
\* for a stage without one
stage_to_status(new_stage) ==
    CASE new_stage = "under_review" -> Some("under_company_review")
      [] new_stage = "interviewing" -> Some("interview_scheduled")
      [] new_stage = "offer_extended" -> Some("offer_extended")
      [] new_stage = "hired" -> Some("hired")
      [] new_stage = "rejected" -> Some("rejected_by_company")
      [] OTHER -> None

\* the history row bulk_approve_applications inserts:
\* VALUES (:app_id, 'pending_admin_review', 'forwarded_to_company', ...)
bulk_history_row(app_id) ==
    [ application_id |-> app_id, previous_status |-> "pending_admin_review",
      new_status |-> "forwarded_to_company" ]

\* one round of the loop of bulk_approve_applications over the tables in st
bulk_approve_one(st, app_id) ==
    IF /\ app_id \in 1 .. Len(st.applications)
       /\ st.applications[app_id].status \in { "pending_admin_review", "admin_shortlisted" }
    THEN [ applications |->
             [ st.applications EXCEPT ![app_id] =
                 [ @ EXCEPT !.status = "forwarded_to_company",
                            !.forwarded_at = Some("now"),
                            !.company_stage = Some("new_candidates") ] ],
           history |-> Append(st.history, bulk_history_row(app_id)),
           updated |-> st.updated + 1 ]
    ELSE st

\* the loop `for app_id in application_ids`
RECURSIVE bulk_approve_all(_, _)
bulk_approve_all(st, application_ids) ==
    IF application_ids = << >> THEN st
    ELSE bulk_approve_all(bulk_approve_one(st, Head(application_ids)),
                          Tail(application_ids))

\* requests of bulk approve: one id, a repeated id, an unknown id
BulkRequests == { << 1 >>, << 1, 1 >>, << 2, 1 >> }

\* the new_status values requested of update_application_status: three
\* valid ones and one that is not in valid_statuses
StatusInputs ==
    { "pending_admin_review", "admin_shortlisted", "forwarded_to_company", "hired" }

\* the new_stage values requested of update_candidate_stage: three valid
\* ones and one that is not in valid_stages
StageInputs == { "new_candidates", "under_review", "hired", "applied" }

InitReview ==
    /\ skills = SkillIds
    /\ students = [ s \in StudentIds |-> PlainStudent ]
    /\ student_skills = {}
    /\ student_embeddings = {}
    /\ jobs = [ j \in JobIds |->
                 IF j = 1 THEN PlainJob(1) ELSE [ PlainJob(j) EXCEPT !.status = "paused" ] ]
    /\ job_skills = {}
    /\ job_embeddings = {}
    /\ applications = << >>
    /\ application_status_history = << >>
    /\ courses = << >>
    /\ course_skills = {}
    /\ Idle

BulkApprove ==
    \E application_ids \in BulkRequests :
      /\ Idle
      /\ Len(application_status_history) + Len(application_ids) <= MaxHistory
      /\ LET done == bulk_approve_all(
                       [ applications |-> applications,
                         history |-> application_status_history, updated |-> 0 ],
                       application_ids)
         IN  /\ applications' = done.applications
             /\ application_status_history' = done.history
             /\ resp' = Some([ status_code |-> 200, updated |-> done.updated,
                               total_requested |-> Len(application_ids) ])
      /\ req' = [ op |-> "bulk_approve", application_ids |-> application_ids ]
      /\ UNCHANGED << courses, course_skills, skills, students, student_skills,
                      student_embeddings, jobs, job_skills, job_embeddings >>

UpdateApplicationStatus ==
    \E application_id \in 1 .. 2, new_status \in StatusInputs :
      /\ Idle
      /\ Len(application_status_history) < MaxHistory
      /\ req' = [ op |-> "update_status", application_id |-> application_id,
                  new_status |-> new_status ]
      /\ IF new_status \notin AdminStatuses
         THEN /\ resp' = Some([ status_code |-> 400 ])
              /\ UNCHANGED << applications, application_status_history >>
         ELSE IF application_id \notin 1 .. Len(applications)
         THEN /\ resp' = Some([ status_code |-> 404 ])
              /\ UNCHANGED << applications, application_status_history >>
         ELSE LET old_status == applications[application_id].status
              IN  /\ applications' =
                       [ applications EXCEPT ![application_id] =
                           IF new_status = "forwarded_to_company"
                           THEN [ @ EXCEPT !.status = new_status,
                                           !.forwarded_at = Some("now"),
                                           !.company_stage = Some("new_candidates") ]
                           ELSE [ @ EXCEPT !.status = new_status ] ]
                  /\ application_status_history' =
                       Append(application_status_history,
                              [ application_id |-> application_id,
                                previous_status |-> old_status,
                                new_status |-> new_status ])
                  /\ resp' = Some([ status_code |-> 200 ])
      /\ UNCHANGED << courses, course_skills, skills, students, student_skills,
                      student_embeddings, jobs, job_skills, job_embeddings >>

UpdateCandidateStage ==
    \E application_id \in 1 .. 2, new_stage \in StageInputs :
      /\ Idle
      /\ req' = [ op |-> "update_stage", application_id |-> application_id,
                  new_stage |-> new_stage ]
      /\ IF new_stage \notin CompanyStages
         THEN /\ resp' = Some([ status_code |-> 400 ])
              /\ UNCHANGED applications
         ELSE IF application_id \notin 1 .. Len(applications)
         THEN /\ resp' = Some([ status_code |-> 404 ])
              /\ UNCHANGED applications
         ELSE /\ applications' =
                   [ applications EXCEPT ![application_id] =
                       IF stage_to_status(new_stage) # None
                       THEN [ @ EXCEPT !.company_stage = Some(new_stage),
                                       !.status = Val(stage_to_status(new_stage)) ]
                       ELSE [ @ EXCEPT !.company_stage = Some(new_stage) ] ]
              /\ resp' = Some([ status_code |-> 200 ])
      /\ UNCHANGED << application_status_history, courses, course_skills, skills, students,
                      student_skills, student_embeddings, jobs, job_skills,
                      job_embeddings >>

NextReview ==
    Apply \/ BulkApprove \/ UpdateApplicationStatus \/ UpdateCandidateStage \/ Return

SpecReview == InitReview /\ [][NextReview]_vars

\* the statuses only the company side sets
CompanySideStatuses ==
    { "under_company_review", "interview_scheduled", "offer_extended", "hired",
      "rejected_by_company" }

\* C27: an application goes to admin review first: whatever apply, admin
\* status update, bulk approve and company stage update operations have
\* run, an application in a company-side status was forwarded to the company
\* by an admin before (forwarded_at is written by the two admin operations
\* when they forward, and never cleared).
C27_CompanyStatusOnlyAfterForward ==
    \A i \in 1 .. Len(applications) :
      applications[i].status \in CompanySideStatuses =>
        applications[i].forwarded_at # None

\* what holds: an application starts in pending_admin_review, and no admin
\* operation or apply puts an application into a company-side status
C27_AdminStepsKeepAdminStatus ==
    [][ req'.op \in { "apply", "bulk_approve", "update_status" } =>
          /\ Len(applications') >= Len(applications)
          /\ \A i \in 1 .. Len(applications') :
               IF i > Len(applications)
               THEN applications'[i].status = "pending_admin_review"
               ELSE applications'[i].status \in CompanySideStatuses =>
                      applications'[i].status = applications[i].status ]_vars

\* the history rows a step has appended for application i
AppendedFor(i) ==
    { k \in Len(application_status_history) + 1 .. Len(application_status_history') :
        application_status_history'[k].application_id = i }

C28_StatusUpdateHistory ==
    [][ req'.op = "update_status" =>
          /\ SubSeq(application_status_history', 1, Len(application_status_history))
               = application_status_history
          /\ \A i \in 1 .. Len(applications) :
               applications'[i].status # applications[i].status =>
                 /\ Cardinality(AppendedFor(i)) = 1
                 /\ \A k \in AppendedFor(i) :
                      /\ application_status_history'[k].previous_status
                           = applications[i].status
                      /\ application_status_history'[k].new_status
                           = applications'[i].status ]_vars

=============================================================================
